---- MODULE Spec2Model ----
(***************************************************************************)
(* PriceHawk: the store-discovery and price-extraction engine.             *)
(*                                                                         *)
(* One call of scrape_url (app/services/scraper_service.py) or of          *)
(* discover_products (app/services/store_discovery.py) is modelled as a    *)
(* state machine whose steps are the awaits of the coroutine: one step per *)
(* HTTP request, per detect probe, per sleep, per close.  The remote       *)
(* server, the HTTP client library and the headless browser are the        *)
(* environment: their answers are drawn nondeterministically.              *)
(*                                                                         *)
(* Python None is <<>> and a present value v is <<v>>.  Amounts are        *)
(* integers (minor units).  Exception messages are [id, len] records so    *)
(* that the [:200] truncation of str(e) acts on the length.  Texts (URLs,  *)
(* price texts) are sequences of one-character strings; the currency signs *)
(* are written "euro", "pound" and "naira".                                *)
(*                                                                         *)
(* Specifications: Spec and FairSpec follow one call of scrape_url or      *)
(* discover_products; SpecPrice applies parse_price to a text; SpecUrl     *)
(* applies normalize_url or validate_url to a text; SpecApi follows the    *)
(* product-creating requests of one user (app/api/routes); SpecWoo probes  *)
(* the API endpoints of one WooCommerce store; SpecExtract applies         *)
(* extract_price_from_html to a document; SpecParse runs the item loop of  *)
(* each handler over one page; SpecAlert follows concurrent executions of  *)
(* check_price_change_and_alert for one user; SpecDigest follows           *)
(* send_alert_digests for one user; SpecRuns follows concurrent executions *)
(* of scrape_single_competitor for one competitor; SpecManual follows one  *)
(* execution of scrape_product_manual (app/tasks/scraper_tasks.py).        *)
(***************************************************************************)
EXTENDS Integers, Sequences, FiniteSets, TLC

\* ------------------------------------------------------------------ bounds
\* longest page (number of raw items) one response of a store can carry
MaxPageLen == 2
\* settings.max_products_fetch, scaled down
MaxFetch == 2
\* largest `limit` a caller passes
MaxLimit == 2
\* highest page number the paging loops are followed to
MaxPage == 3
\* longest cascade of price candidates in one HTML document
MaxCand == 2
\* most elements the selectors of one platform match in a document
MaxMatch == 1
\* longest price text enumerated character by character
MaxTextLen == 3
\* requests of one user the API serves at the same time
MaxCalls == 2
\* rows of one user the products table is followed to
MaxRows == 52

\* --------------------------------------------------------- program constants
\* str(e)[:200]
ErrTruncLen == 200
\* max_pages = (limit // 20) + 1 in AmazonHandler.fetch_products
AmazonPerPage == 20
\* max_pages = (limit // 50) + 1 in EbayHandler.fetch_products
EbayPerPage == 50
\* api/routes/products.py
MAX_PRODUCTS_PER_USER == 50

None == <<>>
Some(x) == <<x>>
IsNone(o) == o = <<>>
Val(o) == o[1]

Min(a, b) == IF a < b THEN a ELSE b

\* ---------------------------------------------------------------- texts
(* A text (a Python str) is a sequence of characters, each written as a    *)
(* string; the currency signs are written "euro", "pound" and "naira".     *)
(* The operators below are the str and re operations the code applies.     *)
Digits == { "0", "1", "2", "3", "4", "5", "6", "7", "8", "9" }
LowerCase == <<"a","b","c","d","e","f","g","h","i","j","k","l","m","n","o","p","q","r","s","t","u","v","w","x","y","z">>
UpperCase == <<"A","B","C","D","E","F","G","H","I","J","K","L","M","N","O","P","Q","R","S","T","U","V","W","X","Y","Z">>
(* An operator that reads its text argument more than once binds it first   *)
(* (t \in {s}), so that the argument is evaluated once per call.           *)
\* the element of a one-element set
The(S) == CHOOSE x \in S : TRUE

Range(s) == The({ { t[i] : i \in 1..Len(t) } : t \in {s} })
Letters == Range(LowerCase) \cup Range(UpperCase)
\* characters str.strip() and \s take for whitespace
Blank == { " " }

LowerChar(c) ==
  IF \E i \in 1..Len(UpperCase) : UpperCase[i] = c
  THEN LowerCase[CHOOSE i \in 1..Len(UpperCase) : UpperCase[i] = c] ELSE c
UpperChar(c) ==
  IF \E i \in 1..Len(LowerCase) : LowerCase[i] = c
  THEN UpperCase[CHOOSE i \in 1..Len(LowerCase) : LowerCase[i] = c] ELSE c

\* str.lower()
Lower(s) == The({ [i \in 1..Len(t) |-> LowerChar(t[i])] : t \in {s} })
\* str.upper()
Upper(s) == The({ [i \in 1..Len(t) |-> UpperChar(t[i])] : t \in {s} })

\* str.startswith(p), str.endswith(p), `p in s`
StartsWith(s, p) ==
  \E t \in {s} : Len(p) <= Len(t) /\ SubSeq(t, 1, Len(p)) = p
EndsWith(s, p) ==
  \E t \in {s} : Len(p) <= Len(t) /\ SubSeq(t, Len(t) - Len(p) + 1, Len(t)) = p
HasSub(s, p) ==
  \E t \in {s} : \E i \in 0..(Len(t) - Len(p)) : SubSeq(t, i + 1, i + Len(p)) = p

\* position of the first / the last character of s that is in C, 0 if none
Find(s, C) ==
  The({ IF \E i \in 1..Len(t) : t[i] \in C
        THEN CHOOSE i \in 1..Len(t) :
               t[i] \in C /\ \A j \in 1..(i - 1) : t[j] \notin C
        ELSE 0 : t \in {s} })
RFind(s, C) ==
  The({ IF \E i \in 1..Len(t) : t[i] \in C
        THEN CHOOSE i \in 1..Len(t) :
               t[i] \in C /\ \A j \in (i + 1)..Len(t) : t[j] \notin C
        ELSE 0 : t \in {s} })

\* s[i:] and s[:i] for a position i of s
From(s, i) == The({ SubSeq(t, i, Len(t)) : t \in {s} })
Upto(s, i) == SubSeq(s, 1, i)

\* str.strip()
Strip(s) ==
  The({ LET keep == { i \in 1..Len(t) : t[i] \notin Blank } IN
        IF keep = {} THEN <<>>
        ELSE SubSeq(t, CHOOSE i \in keep : \A j \in keep : i <= j,
                       CHOOSE i \in keep : \A j \in keep : j <= i) : t \in {s} })

\* re.sub(r"[C]", "", s), and s.replace(c, "") for C = {c}
Without(s, C) == LET Kept(c) == c \notin C IN SelectSeq(s, Kept)

\* s.replace(c, d) for characters c and d
Replace(s, c, d) ==
  The({ [i \in 1..Len(t) |-> IF t[i] = c THEN d ELSE t[i]] : t \in {s} })

\* s.partition(c)[0] and s.partition(c)[2] for a character c
Before(s, c) ==
  The({ IF Find(t, {c}) = 0 THEN t ELSE Upto(t, Find(t, {c}) - 1) : t \in {s} })
After(s, c) ==
  The({ IF Find(t, {c}) = 0 THEN <<>> ELSE From(t, Find(t, {c}) + 1) : t \in {s} })
\* s.rpartition(c)[2]
AfterLast(s, c) ==
  The({ IF RFind(t, {c}) = 0 THEN t ELSE From(t, RFind(t, {c}) + 1) : t \in {s} })

\* ------------------------------------------------------------------- URLs
(* urllib.parse.urlsplit, as far as validate_url and the handlers read its *)
(* result, for texts without control characters or ';' and whose bracketed *)
(* hosts, when the brackets balance, are IPv6 addresses.                   *)
SchemeChars == Letters \cup Digits \cup { "+", "-", "." }

\* the scheme (lowered, "" if none) and what follows its ':'
SplitScheme(u) ==
  The({ LET i == Find(t, { ":" })
            hasScheme == /\ i > 1
                         /\ t[1] \in Letters
                         /\ \A k \in 1..(i - 1) : t[k] \in SchemeChars
        IN IF hasScheme
           THEN [scheme |-> Lower(Upto(t, i - 1)), rest |-> From(t, i + 1)]
           ELSE [scheme |-> <<>>, rest |-> t] : t \in {u} })

\* the netloc after "//" (none: "") and what follows it
SplitNetloc(rest) ==
  The({ IF ~StartsWith(t, <<"/","/">>) THEN [netloc |-> <<>>, rest |-> t, has |-> FALSE]
        ELSE The({ The({ IF d = 0
                         THEN [netloc |-> tail, rest |-> <<>>, has |-> TRUE]
                         ELSE [netloc |-> Upto(tail, d - 1), rest |-> From(tail, d),
                               has |-> TRUE]
                         : d \in { Find(tail, { "/", "?", "#" }) } })
                   : tail \in { From(t, 3) } })
        : t \in {rest} })

urlparse(u) ==
  The({ The({ The({ [ raises |-> n.has /\ ( ("[" \in Range(n.netloc))
                                              # ("]" \in Range(n.netloc)) ),
                      scheme |-> s.scheme,
                      netloc |-> n.netloc,
                      path |-> Before(nofrag, "?"),
                      query |-> After(nofrag, "?") ]
                    : nofrag \in { Before(n.rest, "#") } })
              : n \in { SplitNetloc(s.rest) } })
        : s \in { SplitScheme(u) } })

\* SplitResult.hostname of a netloc, "" standing for None
hostname(netloc) ==
  The({ Lower(IF "[" \in Range(hostinfo)
              THEN Before(After(hostinfo, "["), "]")
              ELSE Before(hostinfo, ":"))
        : hostinfo \in { AfterLast(netloc, "@") } })

\* urlparse(u) raises ValueError
UrlparseRaises(u) == urlparse(u).raises
\* parsed.scheme
ParsedScheme(u) == urlparse(u).scheme
\* parsed.hostname or ""
ParsedHost(u) == hostname(urlparse(u).netloc)

HexDigits == Digits \cup { "a", "b", "c", "d", "e", "f" }

\* re.match of one of private_patterns on the lowered hostname
MatchesPrivatePattern(hostname_lower) ==
  \E h \in { hostname_lower } :
  \/ h = <<"l","o","c","a","l","h","o","s","t">>
  \/ StartsWith(h, <<"1","2","7",".">>)
  \/ StartsWith(h, <<"1","0",".">>)
  \/ /\ StartsWith(h, <<"1","7","2",".">>) /\ Len(h) >= 7 /\ h[7] = "."
     /\ \/ h[5] = "1" /\ h[6] \in { "6", "7", "8", "9" }
        \/ h[5] = "2" /\ h[6] \in Digits
        \/ h[5] = "3" /\ h[6] \in { "0", "1" }
  \/ StartsWith(h, <<"1","9","2",".","1","6","8",".">>)
  \/ StartsWith(h, <<"0",".">>)
  \/ StartsWith(h, <<"1","6","9",".","2","5","4",".">>)
  \/ h = <<":",":","1">>
  \/ /\ StartsWith(h, <<"f","c">>) /\ Len(h) >= 5
     /\ h[3] \in HexDigits /\ h[4] \in HexDigits /\ h[5] = ":"
  \/ /\ StartsWith(h, <<"f","d">>) /\ Len(h) >= 5
     /\ h[3] \in HexDigits /\ h[4] \in HexDigits /\ h[5] = ":"
  \/ StartsWith(h, <<"f","e","8","0",":">>)

\* the cloud metadata endpoints of line 129
MetadataHosts == { <<"1","6","9",".","2","5","4",".","1","6","9",".","2","5","4">>, <<"m","e","t","a","d","a","t","a",".","g","o","o","g","l","e",".","i","n","t","e","r","n","a","l">> }

\* a suffix list without ".lan"
BLOCKED_DOMAIN_SUFFIXES_NoLan ==
  { <<".","l","o","c","a","l">>, <<".","l","o","c","a","l","h","o","s","t">>, <<".","i","n","t","e","r","n","a","l">>, <<".","c","o","r","p">>,
    <<".","h","o","m","e">>, <<".","i","n","t","r","a","n","e","t">> }

BLOCKED_DOMAIN_SUFFIXES ==
  { <<".","l","o","c","a","l">>, <<".","l","o","c","a","l","h","o","s","t">>, <<".","i","n","t","e","r","n","a","l">>, <<".","c","o","r","p">>, <<".","l","a","n">>,
    <<".","h","o","m","e">>, <<".","i","n","t","r","a","n","e","t">> }

\* hostname matches one of private_patterns, the metadata hosts or a blocked suffix
IsPrivateHost(hostname_lower) ==
  \E h \in { hostname_lower } :
  \/ MatchesPrivatePattern(h)
  \/ h \in MetadataHosts
  \/ \E suffix \in BLOCKED_DOMAIN_SUFFIXES : EndsWith(h, suffix)

Msg(id, len) == [id |-> id, len |-> len]
\* str(e)[:200]
Truncate(m) == [id |-> m.id, len |-> Min(m.len, ErrTruncLen)]

ErrEmpty == Msg("URL cannot be empty", 19)
ErrHttp == Msg("HTTP is not secure. Please use the HTTPS version of this URL", 99)
ErrFormat == Msg("Invalid URL format. Please enter a valid product URL", 52)
ErrHttpsOnly == Msg("Only HTTPS URLs are allowed", 27)
ErrPrivate == Msg("Private or internal URLs are not allowed", 40)
ErrInvalid == Msg("Invalid URL: Invalid IPv6 URL", 29)
ErrNoPrice == Msg("Could not extract price", 120)

\* normalize_url: <<url or None, error or None>>
normalize_url(raw) ==
  The({ IF u = <<>> THEN <<None, Some(ErrEmpty)>>
        ELSE IF StartsWith(Lower(u), <<"h","t","t","p",":","/","/">>) THEN <<None, Some(ErrHttp)>>
        ELSE IF ~StartsWith(u, <<"h","t","t","p","s",":","/","/">>)
             THEN IF "." \in Range(u) /\ " " \notin Range(u)
                  THEN <<Some(<<"h","t","t","p","s",":","/","/">> \o u), None>>
                  ELSE <<None, Some(ErrFormat)>>
        ELSE <<Some(u), None>> : u \in { Strip(raw) } })

\* validate_url without the private_patterns check
validate_url_NoPrivate(u) ==
  The({ IF parsed.raises THEN <<FALSE, Some(ErrInvalid)>>
        ELSE IF parsed.scheme # <<"h","t","t","p","s">> THEN <<FALSE, Some(ErrHttpsOnly)>>
        ELSE <<TRUE, None>> : parsed \in { urlparse(u) } })

\* validate_url: <<is_valid, error or None>>
validate_url(u) ==
  The({ IF parsed.raises THEN <<FALSE, Some(ErrInvalid)>>
        ELSE IF parsed.scheme # <<"h","t","t","p","s">> THEN <<FALSE, Some(ErrHttpsOnly)>>
        ELSE IF IsPrivateHost(hostname(parsed.netloc)) THEN <<FALSE, Some(ErrPrivate)>>
        ELSE <<TRUE, None>> : parsed \in { urlparse(u) } })

\* the url arguments of scrape_url and discover_products
Urls ==
  { <<"h","t","t","p","s",":","/","/","s","h","o","p",".","e","x","a","m","p","l","e",".","c","o","m","/">>,
    <<" ","s","h","o","p",".","e","x","a","m","p","l","e",".","c","o","m","/"," ">>,
    <<"h","t","t","p",":","/","/","s","h","o","p",".","e","x","a","m","p","l","e",".","c","o","m","/">>,
    <<"h","t","t","p","s",":","/","/","1","9","2",".","1","6","8",".","1",".","1","/","x">>,
    <<"l","o","c","a","l","h","o","s","t">>,
    <<"h","t","t","p","s",":","/","/","w","w","w",".","a","m","a","z","o","n",".","c","o","m","/","s","?","k","=","t","v">>,
    <<"h","t","t","p","s",":","/","/","w","w","w",".","a","m","a","z","o","n",".","c","o","m","/","d","p","/","B","0","1">>,
    <<"h","t","t","p","s",":","/","/","w","w","w",".","e","b","a","y",".","c","o","m","/","s","t","r","/","a","c","m","e">>,
    <<"h","t","t","p","s",":","/","/","[","b","a","d","/">>,
    <<" "," ">> }

\* ------------------------------------------------------- price extraction
(* An HTML document is the cascade of parse_price results of the elements  *)
(* its selectors match, in cascade order: <<amount or None, currency>>.    *)
Cand == { <<None, "USD">>, <<Some(0), "USD">>, <<Some(-1), "USD">>,
          <<Some(1999), "USD">>, <<Some(500), "EUR">> }

RECURSIVE SeqsUpTo(_, _)
SeqsUpTo(S, n) ==
  IF n = 0 THEN { <<>> }
  ELSE LET T == SeqsUpTo(S, n - 1) IN
       T \cup { Append(t, x) : t \in { t \in T : Len(t) = n - 1 }, x \in S }

Htmls == SeqsUpTo(Cand, MaxCand)

\* `if price` alone
Accepts_Truthy(c) == ~IsNone(c[1]) /\ Val(c[1]) # 0

\* `if price and price > 0` in extract_price_from_html
Accepts(c) == ~IsNone(c[1]) /\ Val(c[1]) # 0 /\ Val(c[1]) > 0

RECURSIVE extract_price_from_html(_)
extract_price_from_html(html) ==
  IF html = <<>> THEN <<None, "USD">>
  ELSE IF Accepts(Head(html)) THEN Head(html)
  ELSE extract_price_from_html(Tail(html))

\* exceptions the HTTP client / the browser raise: str(e) may be long or empty
ExcMsgs == { Msg("ConnectError", 40), Msg("ReadTimeout", 300), Msg("", 0) }

\* outcome of a fetch tier: it raised, returned None / "" or returned a document
FetchOutcomes ==
  { [kind |-> "raise", msg |-> m, html |-> <<>>] : m \in ExcMsgs }
  \cup { [kind |-> "none", msg |-> Msg("", 0), html |-> <<>>] }
  \cup { [kind |-> "html", msg |-> Msg("", 0), html |-> h] : h \in Htmls }

ScrapeResult(p, c, s, e) == [price |-> p, currency |-> c, status |-> s, error_message |-> e]

\* a tier that returns success without the `if price:` test
TierReturn_Unchecked(o) ==
  IF o.kind = "html"
  THEN LET pc_ == extract_price_from_html(o.html) IN
       Some(ScrapeResult(pc_[1], pc_[2], "success", None))
  ELSE None

\* one tier of scrape_url (lines 355-362 / 365-372): the ScrapeResult it
\* returns, or None when the function goes on
TierReturn(o) ==
  IF o.kind = "html"
  THEN LET pc_ == extract_price_from_html(o.html) IN
       IF ~IsNone(pc_[1]) /\ Val(pc_[1]) # 0
       THEN Some(ScrapeResult(pc_[1], pc_[2], "success", None))
       ELSE None
  ELSE None

\* a tier that keeps the whole of str(e)
TierError_NoTruncate(o, last) == IF o.kind = "raise" THEN Some(o.msg) ELSE last

\* last_error after a tier (lines 361-362 / 371-372)
TierError(o, last) == IF o.kind = "raise" THEN Some(Truncate(o.msg)) ELSE last

\* `last_error or "Could not extract price..."`
FinalError(last) == IF IsNone(last) \/ Val(last).len = 0 THEN ErrNoPrice ELSE Val(last)


\* ------------------------------------------------------ store handlers
(* Handler instances of one discover_products call: 1..5 are the instances *)
(* detect_platform makes from HANDLER_CLASSES, in that order; 6 is the     *)
(* GenericHandler() of its last line.                                      *)
Shopify == 1
WooCommerce == 2
Amazon == 3
Ebay == 4
Generic == 5
Fallback == 6
HANDLER_CLASSES == <<Shopify, WooCommerce, Amazon, Ebay, Generic>>
Insts == 1..6

platform_name(h) ==
  CASE h = Shopify -> "shopify" [] h = WooCommerce -> "woocommerce"
    [] h = Amazon -> "amazon" [] h = Ebay -> "ebay" [] OTHER -> "custom"

\* BaseStoreHandler.__init__: no client yet.  probe records what detect did,
\* closeCalls the calls of close(), acloses the calls of client.aclose().
NewHandler == [made |-> TRUE, client |-> "none", closeCalls |-> 0, acloses |-> 0, probe |-> "none"]
NoHandler == [made |-> FALSE, client |-> "none", closeCalls |-> 0, acloses |-> 0, probe |-> "none"]

\* BaseStoreHandler._get_client, the constructor having succeeded
get_client(h) == IF h.client # "open" THEN [h EXCEPT !.client = "open"] ELSE h

\* a close that forgets the client
close_NoAclose(h) == [h EXCEPT !.closeCalls = @ + 1]

\* BaseStoreHandler.close
close(h) ==
  IF h.client = "open"
  THEN [h EXCEPT !.client = "closed", !.acloses = @ + 1, !.closeCalls = @ + 1]
  ELSE [h EXCEPT !.closeCalls = @ + 1]

\* AMAZON_DOMAINS and STORE_PATTERNS of AmazonHandler
AMAZON_DOMAINS ==
  { <<"a","m","a","z","o","n",".","c","o","m">>, <<"a","m","a","z","o","n",".","c","o",".","u","k">>, <<"a","m","a","z","o","n",".","d","e">>, <<"a","m","a","z","o","n",".","f","r">>,
    <<"a","m","a","z","o","n",".","c","a">>, <<"a","m","a","z","o","n",".","i","t">>, <<"a","m","a","z","o","n",".","e","s">>, <<"a","m","a","z","o","n",".","c","o","m",".","a","u">>,
    <<"a","m","a","z","o","n",".","c","o",".","j","p">>, <<"a","m","a","z","o","n",".","i","n">>, <<"a","m","a","z","o","n",".","c","o","m",".","m","x">>, <<"a","m","a","z","o","n",".","c","o","m",".","b","r">> }
AMAZON_STORE_PATTERNS ==
  { <<"/","s","t","o","r","e","s","/">>, <<"/","s","?">>, <<"/","s","/">>, <<"/","b","r","a","n","d","/">>, <<"/","g","p","/","b","r","o","w","s","e">> }

\* EBAY_DOMAINS and STORE_PATTERNS of EbayHandler
EBAY_DOMAINS ==
  { <<"e","b","a","y",".","c","o","m">>, <<"e","b","a","y",".","c","o",".","u","k">>, <<"e","b","a","y",".","d","e">>, <<"e","b","a","y",".","f","r">>,
    <<"e","b","a","y",".","i","t">>, <<"e","b","a","y",".","e","s">>, <<"e","b","a","y",".","c","o","m",".","a","u">>, <<"e","b","a","y",".","c","a">> }
EBAY_STORE_PATTERNS == { <<"/","s","t","r","/">>, <<"/","s","c","h","/">>, <<"/","b","/">>, <<"/","u","s","r","/">> }

\* hostname == d or hostname.endswith(f".{d}") for some d of D
InDomains(hostname_, D) ==
  \E h \in { hostname_ } : \E d \in D : h = d \/ EndsWith(h, <<".">> \o d)

\* AmazonHandler.detect on a URL that parses: domain allowlist, then a
\* store/search pattern in the path and query
IsAmazonStore(u) ==
  \E parsed \in { urlparse(u) } :
    LET full_path == IF parsed.query # <<>>
                     THEN parsed.path \o <<"?">> \o parsed.query ELSE parsed.path
    IN /\ InDomains(hostname(parsed.netloc), AMAZON_DOMAINS)
       /\ \E pattern \in AMAZON_STORE_PATTERNS : HasSub(full_path, pattern)

\* EbayHandler.detect on a URL that parses: domain allowlist, then a
\* store/search pattern in the path
IsEbayStore(u) ==
  \E parsed \in { urlparse(u) } :
    /\ InDomains(hostname(parsed.netloc), EBAY_DOMAINS)
    /\ \E pattern \in EBAY_STORE_PATTERNS : HasSub(parsed.path, pattern)

\* GenericHandler.detect on a URL that parses
IsHttpsWithHost(u) == ParsedScheme(u) = <<"h","t","t","p","s">> /\ urlparse(u).netloc # <<>>

\* httpx sends nothing for a URL whose scheme is not http or https
\* (UnsupportedProtocol)
Sendable(u) == ParsedScheme(u) \in { <<"h","t","t","p">>, <<"h","t","t","p","s">> }

\* ------------------------------------------------------ catalog pages
(* A raw item of a page either fails to parse (_parse_product returns None)*)
(* or gives a product; words are the keyword words its searchable text     *)
(* contains.  A parsed product is identified by pos, its position in the   *)
(* order the call fetched the products in.                                 *)
BadItem == [ok |-> FALSE, words |-> {}]
RawItems == { BadItem } \cup [ok : {TRUE}, words : { {}, {"a"} }]
Pages == SeqsUpTo(RawItems, MaxPageLen)

Product(pos, words) == [pos |-> pos, words |-> words]

\* the `for p in page: product = parse(p); if product: products.append(product)`
\* loops: ps extended by the items of pg that parse
RECURSIVE ParsePage(_, _)
ParsePage(ps, pg) ==
  IF pg = <<>> THEN ps
  ELSE IF Head(pg).ok
       THEN ParsePage(Append(ps, Product(Len(ps) + 1, Head(pg).words)), Tail(pg))
       ELSE ParsePage(ps, Tail(pg))

\* a GraphQL edge is an object holding a node, or None when it is no object
Edges == { None } \cup { Some(i) : i \in RawItems }
EdgePages == SeqsUpTo(Edges, MaxPageLen)

\* the edges loop of _fetch_storefront_version (lines 174-178): edge.get runs
\* outside _parse_storefront_product, so an edge that is no object raises into
\* the except of the page
RECURSIVE ParseEdges(_, _)
ParseEdges(ps, edges) ==
  IF edges = <<>> THEN [products |-> ps, raised |-> FALSE]
  ELSE IF IsNone(Head(edges)) THEN [products |-> ps, raised |-> TRUE]
  ELSE ParseEdges(ParsePage(ps, << Val(Head(edges)) >>), Tail(edges))

Keywords == { None, Some(<<>>), Some(<<"a">>), Some(<<"b", "a">>) }
Limits == 0..MaxLimit

\* BaseStoreHandler.filter_by_keyword; the keyword is its list of words
filter_by_keyword(ps, kw) ==
  IF IsNone(kw) \/ Val(kw) = <<>> THEN ps
  ELSE SelectSeq(ps, LAMBDA p : \E i \in 1..Len(Val(kw)) : Val(kw)[i] \in p.words)

\* Python s[:n]
Slice(s, n) ==
  IF n >= 0 THEN SubSeq(s, 1, Min(n, Len(s)))
  ELSE SubSeq(s, 1, IF Len(s) + n > 0 THEN Len(s) + n ELSE 0)

\* answers of a server to one request
Failed(k) == k \in { "error", "non200" }
PageResps ==
  { [kind |-> k, page |-> <<>>] : k \in { "error", "non200" } }
  \cup { [kind |-> "ok", page |-> p] : p \in Pages }
Cursors == { None, Some("c1"), Some("c2") }
StorefrontResps ==
  { [kind |-> k, page |-> <<>>, hasNext |-> FALSE, endCursor |-> None] :
      k \in { "error", "non200", "gqlerrors" } }
  \cup { [kind |-> "ok", page |-> p, hasNext |-> b, endCursor |-> c] :
           p \in EdgePages, b \in BOOLEAN, c \in Cursors }

DiscoveryResult(pl, u, n, ps, e) ==
  [platform |-> pl, store_url |-> u, total_found |-> n, products |-> ps, error |-> e]

\* discover_products lines 48-53
SuccessResult(h, u, ps) == DiscoveryResult(platform_name(h), u, Len(ps), ps, None)
\* discover_products lines 55-62
ExceptResult(u, m) == DiscoveryResult("unknown", u, 0, <<>>, Some(Truncate(m)))

\* ------------------------------------------------------------------ state
VARIABLES
  pc,         \* position in the running call
  op,         \* "none", "scrape" or "discover"
  url,        \* the caller's url argument
  keyword,    \* discover_products: keyword
  limit,      \* discover_products: limit
  nurl,       \* scrape_url: the normalized url, or None
  validated,  \* URLs validate_url accepted in this call
  requests,   \* outbound requests issued in this call
  delayed,    \* scrape_url: the randomized sleep has run
  last_error, \* scrape_url: last_error
  attempts,   \* scrape_url: the fetch tiers run so far, each with its outcome
  ret,        \* the value the call returned, or None
  escaped,    \* the exception the call raised to its caller, or None
  inst,       \* the handler instances of this call
  idx,        \* detect_platform: position in HANDLER_CLASSES
  handler,    \* discover_products: handler (0 is None)
  products,   \* the fetch loop's products list
  page,       \* the fetch loop's page number
  cursor,     \* Storefront loop: cursor
  version,    \* Storefront: position in api_versions
  endpoint,   \* WooCommerce: working_endpoint (0 is None)
  allFailed,  \* every request of this call so far failed
  stop,       \* why the fetch loop was left: "none", "guard" or "break"
  text,       \* parse_price: the text argument
  out,        \* the function applied to url or text and what it returned, or None
  rows,       \* number of rows of table products with the user's user_id
  calls,      \* the API requests of the user being served
  store,      \* WooCommerce: the answer of each API endpoint of the store probed
  doc,        \* extract_price_from_html: the document, or None
  items,      \* the items of one fetched page before they are parsed, or None
  settings,   \* the user's row of user_alert_settings, or None
  pending,    \* the user's rows of pending_alerts, oldest first
  checks,     \* the executions of check_price_change_and_alert
  digest,     \* send_alert_digests: its pass over the user
  alert_history,        \* the email_status of the user's rows of alert_history
  last_digest_sent_at,  \* user_alert_settings.last_digest_sent_at, as a counter
  price_history,  \* the competitor's rows of price_history: the UTC day of each
  today,          \* the current UTC day
  runs,           \* the executions of scrape_single_competitor
  progress,       \* the records set_scrape_progress wrote for the task, last one last
  manual          \* scrape_product_manual: the locals of the task, or None

\* the state of the background tasks and of the stores they probe
digestVars == << digest, alert_history, last_digest_sent_at >>
runVars == << price_history, today, runs >>
manualVars == << progress, manual >>
taskVars == << store, doc, items, settings, pending, checks, digestVars, runVars,
               manualVars >>

vars == << pc, op, url, keyword, limit, nurl, validated, requests, delayed,
           last_error, attempts, ret, escaped, inst, idx, handler, products, page,
           cursor, version, endpoint, allFailed, stop, text, out, rows, calls,
           taskVars >>

scrapeVars == << nurl, validated, delayed, last_error, attempts >>
detectVars == << inst, idx, handler >>
loopVars == << products, page, cursor, version, endpoint, stop >>
\* what a call of scrape_url or discover_products does not touch
otherVars == << text, out, rows, calls, taskVars >>

Req(u, what) == [u |-> u, what |-> what]

\* no call of scrape_url or discover_products has begun
NoCall ==
  /\ pc = "idle"
  /\ op = "none"
  /\ keyword = None
  /\ limit = 0
  /\ nurl = None
  /\ validated = {}
  /\ requests = {}
  /\ delayed = FALSE
  /\ last_error = None
  /\ attempts = <<>>
  /\ ret = None
  /\ escaped = None
  /\ inst = [i \in Insts |-> NoHandler]
  /\ idx = 1
  /\ handler = 0
  /\ products = <<>>
  /\ page = 1
  /\ cursor = None
  /\ version = 1
  /\ endpoint = 0
  /\ allFailed = TRUE
  /\ stop = "none"

\* a request slot of the API that serves nothing
IdleCall == [pc |-> "idle", last |-> 0]
Calls == 1..MaxCalls

\* the user has no product and sends no request
NoRequest ==
  /\ rows = 0
  /\ calls = [c \in Calls |-> IdleCall]

\* no store is probed outside a call
NoStore == store = <<>>

\* no document is at hand outside a call
NoDoc == doc = None

\* no page is being parsed outside a call
NoItems == items = None

\* the alert tables are empty and no check runs
NoAlerts == settings = None /\ pending = <<>> /\ checks = <<>>

\* no digest pass runs
NoDigest == digest = None /\ alert_history = <<>> /\ last_digest_sent_at = 0

\* no scheduled scrape runs
NoRuns == price_history = <<>> /\ today = 1 /\ runs = <<>>

\* no manual scrape runs
NoManual == progress = <<>> /\ manual = None

\* no background task runs
NoTask == NoStore /\ NoDoc /\ NoItems /\ NoAlerts /\ NoDigest /\ NoRuns /\ NoManual

Init ==
  /\ NoCall
  /\ url \in Urls
  /\ text = <<>>
  /\ out = None
  /\ NoRequest
  /\ NoTask

\* ------------------------------------------------------------ scrape_url
\* lines 336-349: normalize, validate, short-circuit on either failure
ScrapeStart ==
  /\ pc = "idle"
  /\ op' = "scrape"
  /\ LET n == normalize_url(url) IN
     IF ~IsNone(n[2])
     THEN /\ ret' = Some(ScrapeResult(None, "USD", "failed", n[2]))
          /\ pc' = "done"
          /\ UNCHANGED << nurl, validated >>
     ELSE LET v == validate_url(Val(n[1])) IN
          /\ nurl' = n[1]
          /\ IF ~v[1]
             THEN /\ ret' = Some(ScrapeResult(None, "USD", "failed", v[2]))
                  /\ pc' = "done"
                  /\ UNCHANGED validated
             ELSE /\ validated' = validated \cup { Val(n[1]) }
                  /\ pc' = "s_delay"
                  /\ UNCHANGED ret
  /\ UNCHANGED << url, otherVars, keyword, limit, requests, delayed, last_error, attempts,
                  escaped, detectVars, loopVars, allFailed >>

\* line 352: await asyncio.sleep(random.uniform(2, 5))
ScrapeDelay ==
  /\ pc = "s_delay"
  /\ delayed' = TRUE
  /\ pc' = "s_httpx"
  /\ UNCHANGED << op, url, otherVars, keyword, limit, nurl, validated, requests, last_error,
                  attempts, ret, escaped, detectVars, loopVars, allFailed >>

\* lines 354-362 (what = "httpx") and 364-377 (what = "playwright")
ScrapeTier(what, here, next) ==
  /\ pc = here
  /\ \E o \in FetchOutcomes :
       /\ requests' = requests \cup { Req(Val(nurl), what) }
       /\ attempts' = Append(attempts, [what |-> what, o |-> o])
       /\ allFailed' = (allFailed /\ o.kind = "raise")
       /\ LET r == TierReturn(o)
              le == TierError(o, last_error) IN
          IF ~IsNone(r)
          THEN /\ ret' = r
               /\ pc' = "done"
               /\ UNCHANGED last_error
          ELSE /\ last_error' = le
               /\ IF next = "done"
                  THEN /\ ret' = Some(ScrapeResult(None, "USD", "failed", Some(FinalError(le))))
                       /\ pc' = "done"
                  ELSE /\ pc' = next
                       /\ UNCHANGED ret
  /\ UNCHANGED << op, url, otherVars, keyword, limit, nurl, validated, delayed, escaped,
                  detectVars, loopVars >>

\* a first tier after which the function returns whatever it found
ScrapeHttpx_NoFallback == ScrapeTier("httpx", "s_httpx", "done")

\* lines 354-362: try httpx first
ScrapeHttpx == ScrapeTier("httpx", "s_httpx", "s_playwright")

ScrapePlaywright == ScrapeTier("playwright", "s_playwright", "done")

\* ------------------------------------------------------ detect_platform
DiscoverStart ==
  /\ pc = "idle"
  /\ op' = "discover"
  /\ \E k \in Keywords, l \in Limits : keyword' = k /\ limit' = l
  /\ pc' = "detect"
  /\ UNCHANGED << url, otherVars, scrapeVars, requests, ret, escaped, detectVars, loopVars,
                  allFailed >>

\* a priority list that leaves WooCommerce out
NextHandler_Skip(i) ==
  IF i = Shopify THEN Amazon ELSE IF i < Len(HANDLER_CLASSES) THEN i + 1 ELSE 0

\* the handler detect_platform tries after handler i (0: the loop is over)
NextHandler(i) == IF i < Len(HANDLER_CLASSES) THEN i + 1 ELSE 0

\* one turn of the loop of detect_platform (lines 32-39) on handler i, whose
\* detect ended as res ("true", "false", "raised") leaving instance h.  Were a
\* client open when detect raises, the aclose of line 38 could raise in turn,
\* out of detect_platform and into the except of discover_products.
DetectTurn(i, h, res) ==
  IF res = "true"
  THEN /\ inst' = [inst EXCEPT ![i] = [h EXCEPT !.probe = res]]
       /\ handler' = i
       /\ pc' = "fetch"
       /\ UNCHANGED << idx, ret >>
  ELSE IF res = "false"
  THEN /\ inst' = [inst EXCEPT ![i] = [h EXCEPT !.probe = res]]
       /\ idx' = NextHandler(i)
       /\ UNCHANGED << handler, pc, ret >>
  ELSE /\ inst' = [inst EXCEPT ![i] = close([h EXCEPT !.probe = res])]
       /\ UNCHANGED handler
       /\ \E acloseRaises \in BOOLEAN, m \in ExcMsgs :
            IF h.client = "open" /\ acloseRaises
            THEN /\ ret' = Some(ExceptResult(url, m))
                 /\ pc' = "finally"
                 /\ UNCHANGED idx
            ELSE /\ idx' = NextHandler(i)
                 /\ UNCHANGED << pc, ret >>

\* ShopifyHandler.detect: every exception is caught and gives False
DetectShopify ==
  /\ pc = "detect" /\ idx = Shopify
  /\ \E ctorFails \in BOOLEAN, r \in { "error", "non200", "ok_products", "ok_other" } :
       IF UrlparseRaises(url) \/ ctorFails
       THEN /\ DetectTurn(Shopify, NewHandler, "false")
            /\ UNCHANGED << requests, allFailed >>
       ELSE IF ~Sendable(url)
       THEN /\ DetectTurn(Shopify, get_client(NewHandler), "false")
            /\ UNCHANGED << requests, allFailed >>
       ELSE /\ DetectTurn(Shopify, get_client(NewHandler),
                          IF r = "ok_products" THEN "true" ELSE "false")
            /\ requests' = requests \cup { Req(url, "shopify_probe") }
            /\ allFailed' = (allFailed /\ Failed(r))
  /\ UNCHANGED << op, url, otherVars, keyword, limit, scrapeVars, escaped, loopVars >>

\* answers to the probes of API_ENDPOINTS: "ok_list" is 200 with a non-empty
\* list, "ok_empty" 200 with [], "ok_other" 200 with anything else
WooAnswers == { "error", "non200", "ok_empty", "ok_list", "ok_other" }
WooEndpoints == 1..3

\* first endpoint whose answer is in the accepted set, 0 if none
FirstEndpoint(rs, accepted) ==
  IF \E e \in WooEndpoints : rs[e] \in accepted
  THEN CHOOSE e \in WooEndpoints :
         rs[e] \in accepted /\ \A f \in WooEndpoints : f < e => rs[f] \notin accepted
  ELSE 0

\* endpoints probed by a first-match loop that stops at endpoint e (0: none matched)
Probed(e) == IF e = 0 THEN WooEndpoints ELSE 1..e

\* WooCommerceHandler.detect: urlparse and _get_client are outside the try
DetectWoo ==
  /\ pc = "detect" /\ idx = WooCommerce
  /\ \E ctorFails \in BOOLEAN, rs \in [WooEndpoints -> WooAnswers] :
       IF UrlparseRaises(url) \/ ctorFails
       THEN /\ DetectTurn(WooCommerce, NewHandler, "raised")
            /\ UNCHANGED << requests, allFailed >>
       ELSE IF ~Sendable(url)
       THEN /\ DetectTurn(WooCommerce, get_client(NewHandler), "false")
            /\ UNCHANGED << requests, allFailed >>
       ELSE LET e == FirstEndpoint(rs, { "ok_list" }) IN
            /\ DetectTurn(WooCommerce, get_client(NewHandler),
                          IF e # 0 THEN "true" ELSE "false")
            /\ requests' = requests \cup { Req(url, "woo_probe") }
            /\ allFailed' = (allFailed /\ \A f \in Probed(e) : Failed(rs[f]))
  /\ UNCHANGED << op, url, otherVars, keyword, limit, scrapeVars, escaped, loopVars >>

\* AmazonHandler.detect / EbayHandler.detect / GenericHandler.detect: no request
DetectLocal(i, matches) ==
  /\ pc = "detect" /\ idx = i
  /\ DetectTurn(i, NewHandler,
                IF UrlparseRaises(url) THEN "raised"
                ELSE IF matches THEN "true" ELSE "false")
  /\ UNCHANGED << op, url, otherVars, keyword, limit, scrapeVars, requests, escaped,
                  loopVars, allFailed >>

DetectAmazon == DetectLocal(Amazon, IsAmazonStore(url))

DetectEbay == DetectLocal(Ebay, IsEbayStore(url))

DetectGeneric == DetectLocal(Generic, IsHttpsWithHost(url))

\* detect_platform line 42: return GenericHandler()
DetectFallback ==
  /\ pc = "detect" /\ idx = 0
  /\ inst' = [inst EXCEPT ![Fallback] = NewHandler]
  /\ handler' = Fallback
  /\ pc' = "fetch"
  /\ UNCHANGED << op, url, otherVars, keyword, limit, scrapeVars, requests, ret, escaped,
                  idx, loopVars, allFailed >>

\* ------------------------------------------------------- fetch_products
\* `while len(products) < max_fetch` (shopify.py 82 and 143, woocommerce.py 74)
FetchMore(ps, cap) == Len(ps) < cap

\* truncate, then filter
fetch_return_SliceFirst(ps, kw, lim) == filter_by_keyword(Slice(ps, lim), kw)

\* filter, then truncate: shopify.py 66-70, woocommerce.py 96-100, generic.py 84
fetch_return(ps, kw, lim) == Slice(filter_by_keyword(ps, kw), lim)

\* one turn of a page-numbered loop (shopify.py 83-104, woocommerce.py 75-94)
PagingTurn(here, end, what) ==
  /\ pc = here
  /\ FetchMore(products, MaxFetch)
  /\ page <= MaxPage
  /\ \E r \in PageResps :
       /\ requests' = requests \cup { Req(url, what) }
       /\ allFailed' = (allFailed /\ Failed(r.kind))
       /\ IF r.kind # "ok" \/ r.page = <<>>
          THEN /\ pc' = end
               /\ stop' = "break"
               /\ UNCHANGED << products, page >>
          ELSE /\ products' = ParsePage(products, r.page)
               /\ page' = page + 1
               /\ UNCHANGED << pc, stop >>
  /\ UNCHANGED << op, url, otherVars, keyword, limit, scrapeVars, ret, escaped, detectVars,
                  cursor, version, endpoint >>

\* ShopifyHandler.fetch_products lines 51-60: the client of detect is reused
ShopifyFetchStart ==
  /\ pc = "fetch" /\ handler = Shopify
  /\ inst' = [inst EXCEPT ![Shopify] = get_client(@)]
  /\ products' = <<>>
  /\ page' = 1
  /\ pc' = "sh_json"
  /\ UNCHANGED << op, url, otherVars, keyword, limit, scrapeVars, requests, ret, escaped,
                  idx, handler, cursor, version, endpoint, allFailed, stop >>

\* _fetch_via_products_json, one request
ShopifyJsonPage == PagingTurn("sh_json", "sh_json_end", "products_json")

\* api_versions of _fetch_via_storefront_api
ApiVersions == 1..4

\* an end of the /products.json path that always goes on to the Storefront API
ShopifyJsonEnd_AlwaysStorefront ==
  /\ \/ pc = "sh_json_end" /\ UNCHANGED stop
     \/ pc = "sh_json" /\ ~FetchMore(products, MaxFetch) /\ stop' = "guard"
  /\ pc' = "sh_sf"
  /\ version' = 1
  /\ cursor' = None
  /\ UNCHANGED << op, url, otherVars, keyword, limit, scrapeVars, requests, ret, escaped,
                  detectVars, products, page, endpoint, allFailed >>

\* end of _fetch_via_products_json and lines 62-64 of fetch_products
ShopifyJsonEnd ==
  /\ \/ pc = "sh_json_end" /\ UNCHANGED stop
     \/ pc = "sh_json" /\ ~FetchMore(products, MaxFetch) /\ stop' = "guard"
  /\ IF products = <<>>
     THEN /\ pc' = "sh_sf"
          /\ version' = 1
          /\ cursor' = None
     ELSE /\ pc' = "sh_ret"
          /\ UNCHANGED << version, cursor >>
  /\ UNCHANGED << op, url, otherVars, keyword, limit, scrapeVars, requests, ret, escaped,
                  detectVars, products, page, endpoint, allFailed >>

\* _fetch_via_storefront_api lines 121-131 once _fetch_storefront_version
\* has returned ps for the current version
StorefrontVersionEnd(ps, why) ==
  /\ stop' = why
  /\ IF ps # <<>>
     THEN /\ products' = ps
          /\ pc' = "sh_ret"
          /\ UNCHANGED << version, cursor >>
     ELSE IF version < Cardinality(ApiVersions)
     THEN /\ products' = <<>>
          /\ version' = version + 1
          /\ cursor' = None
          /\ UNCHANGED pc
     ELSE /\ products' = <<>>
          /\ pc' = "sh_ret"
          /\ UNCHANGED << version, cursor >>

\* _fetch_storefront_version, one request (lines 143-190)
StorefrontPage ==
  /\ pc = "sh_sf"
  /\ FetchMore(products, MaxFetch)
  /\ \E r \in StorefrontResps :
       /\ requests' = requests \cup { Req(url, "storefront") }
       /\ allFailed' = (allFailed /\ Failed(r.kind))
       /\ IF r.kind # "ok" \/ r.page = <<>>
          THEN StorefrontVersionEnd(products, "break")
          ELSE LET parsed == ParseEdges(products, r.page)
                   ps == parsed.products IN
               IF parsed.raised \/ ~r.hasNext \/ IsNone(r.endCursor)
               THEN StorefrontVersionEnd(ps, "break")
               ELSE /\ products' = ps
                    /\ cursor' = r.endCursor
                    /\ UNCHANGED << pc, version, stop >>
  /\ UNCHANGED << op, url, otherVars, keyword, limit, scrapeVars, ret, escaped, detectVars,
                  page, endpoint >>

\* _fetch_storefront_version leaves its loop by the guard
StorefrontCap ==
  /\ pc = "sh_sf"
  /\ ~FetchMore(products, MaxFetch)
  /\ StorefrontVersionEnd(products, "guard")
  /\ UNCHANGED << op, url, otherVars, keyword, limit, scrapeVars, requests, ret, escaped,
                  detectVars, page, endpoint, allFailed >>

\* fetch_products' last lines and discover_products lines 48-53
HandlerReturn(here, ps) ==
  /\ pc = here
  /\ ret' = Some(SuccessResult(handler, url, ps))
  /\ pc' = "finally"
  /\ UNCHANGED << op, url, otherVars, keyword, limit, scrapeVars, requests, escaped,
                  detectVars, loopVars, allFailed >>

ShopifyReturn == HandlerReturn("sh_ret", fetch_return(products, keyword, limit))

\* WooCommerceHandler.fetch_products lines 54-71 with _find_working_endpoint
WooFetchStart ==
  /\ pc = "fetch" /\ handler = WooCommerce
  /\ \E rs \in [WooEndpoints -> WooAnswers] :
       LET e == FirstEndpoint(rs, { "ok_list", "ok_empty" }) IN
       /\ requests' = requests \cup { Req(url, "woo_endpoint") }
       /\ allFailed' = (allFailed /\ \A f \in Probed(e) : Failed(rs[f]))
       /\ endpoint' = e
       /\ IF e = 0
          THEN /\ ret' = Some(SuccessResult(WooCommerce, url, <<>>))
               /\ pc' = "finally"
          ELSE /\ pc' = "woo_page"
               /\ UNCHANGED ret
  /\ inst' = [inst EXCEPT ![WooCommerce] = get_client(@)]
  /\ products' = <<>>
  /\ page' = 1
  /\ UNCHANGED << op, url, otherVars, keyword, limit, scrapeVars, escaped, idx, handler,
                  cursor, version, stop >>

\* the loop of WooCommerceHandler.fetch_products, one request
WooPage == PagingTurn("woo_page", "woo_ret", "woo_page")

WooReturn ==
  /\ pc = "woo_ret" \/ (pc = "woo_page" /\ ~FetchMore(products, MaxFetch))
  /\ ret' = Some(SuccessResult(handler, url, fetch_return(products, keyword, limit)))
  /\ stop' = IF pc = "woo_page" THEN "guard" ELSE stop
  /\ pc' = "finally"
  /\ UNCHANGED << op, url, otherVars, keyword, limit, scrapeVars, requests, escaped,
                  detectVars, products, page, cursor, version, endpoint, allFailed >>

\* max_pages of AmazonHandler / EbayHandler
MaxPages(h, lim) == (lim \div (IF h = Amazon THEN AmazonPerPage ELSE EbayPerPage)) + 1

\* `while len(products) < limit and page <= max_pages` (amazon.py 67, ebay.py 63)
MarketMore(h, ps, pg, lim) == Len(ps) < lim /\ pg <= MaxPages(h, lim)

\* AmazonHandler / EbayHandler.fetch_products up to the loop: _get_client is
\* outside the try, its failure reaches the except of discover_products
MarketFetchStart(h) ==
  /\ pc = "fetch" /\ handler = h
  /\ \E ctorFails \in BOOLEAN, m \in ExcMsgs :
       IF ctorFails
       THEN /\ ret' = Some(ExceptResult(url, m))
            /\ pc' = "finally"
            /\ UNCHANGED inst
       ELSE /\ inst' = [inst EXCEPT ![h] = get_client(@)]
            /\ pc' = "mk_page"
            /\ UNCHANGED ret
  /\ products' = <<>>
  /\ page' = 1
  /\ UNCHANGED << op, url, otherVars, keyword, limit, scrapeVars, requests, escaped, idx,
                  handler, cursor, version, endpoint, allFailed, stop >>

AmazonFetchStart == MarketFetchStart(Amazon)

EbayFetchStart == MarketFetchStart(Ebay)

\* the loop of AmazonHandler / EbayHandler.fetch_products, one request
MarketPage ==
  /\ pc = "mk_page"
  /\ MarketMore(handler, products, page, limit)
  /\ \E r \in PageResps :
       /\ requests' = requests \cup { Req(url, "search_page") }
       /\ allFailed' = (allFailed /\ Failed(r.kind))
       /\ IF r.kind # "ok" \/ ParsePage(<<>>, r.page) = <<>>
          THEN /\ pc' = "mk_ret"
               /\ stop' = "break"
               /\ UNCHANGED << products, page >>
          ELSE /\ products' = ParsePage(products, r.page)
               /\ page' = page + 1
               /\ UNCHANGED << pc, stop >>
  /\ UNCHANGED << op, url, otherVars, keyword, limit, scrapeVars, ret, escaped, detectVars,
                  cursor, version, endpoint >>

\* a return of everything aggregated, without the slice
MarketReturn_NoSlice ==
  /\ pc = "mk_ret" \/ (pc = "mk_page" /\ ~MarketMore(handler, products, page, limit))
  /\ ret' = Some(SuccessResult(handler, url, products))
  /\ stop' = IF pc = "mk_page" THEN "guard" ELSE stop
  /\ pc' = "finally"
  /\ UNCHANGED << op, url, otherVars, keyword, limit, scrapeVars, requests, escaped,
                  detectVars, products, page, cursor, version, endpoint, allFailed >>

\* return products[:limit]
MarketReturn ==
  /\ pc = "mk_ret" \/ (pc = "mk_page" /\ ~MarketMore(handler, products, page, limit))
  /\ ret' = Some(SuccessResult(handler, url, Slice(products, limit)))
  /\ stop' = IF pc = "mk_page" THEN "guard" ELSE stop
  /\ pc' = "finally"
  /\ UNCHANGED << op, url, otherVars, keyword, limit, scrapeVars, requests, escaped,
                  detectVars, products, page, cursor, version, endpoint, allFailed >>

\* an exception inside fetch_products that reaches discover_products
GenericCaught_Propagates(h, u) == ExceptResult(u, Msg("ConnectError", 40))

\* `except Exception: return []` of GenericHandler.fetch_products, and the
\* result discover_products builds from the empty list
GenericCaught(h, u) == SuccessResult(h, u, <<>>)

\* GenericHandler.fetch_products: the whole body is inside try/except; the
\* client's construction, the request and _parse_products can raise
GenericFetch ==
  /\ pc = "fetch" /\ handler \in { Generic, Fallback }
  /\ \E ctorFails \in BOOLEAN, r \in PageResps, parseRaises \in BOOLEAN :
       IF ctorFails
       THEN /\ ret' = Some(GenericCaught(handler, url))
            /\ UNCHANGED << inst, requests, allFailed, products >>
       ELSE /\ inst' = [inst EXCEPT ![handler] = get_client(@)]
            /\ IF ~Sendable(url)
               THEN /\ ret' = Some(GenericCaught(handler, url))
                    /\ UNCHANGED << requests, allFailed, products >>
               ELSE /\ requests' = requests \cup { Req(url, "page") }
                    /\ allFailed' = (allFailed /\ Failed(r.kind))
                    /\ products' = IF r.kind = "ok" /\ ~parseRaises
                                   THEN ParsePage(<<>>, r.page) ELSE <<>>
                    /\ ret' = Some(IF r.kind = "error" \/ (r.kind = "ok" /\ parseRaises)
                                   THEN GenericCaught(handler, url)
                                   ELSE SuccessResult(handler, url,
                                          IF r.kind = "ok"
                                          THEN fetch_return(ParsePage(<<>>, r.page),
                                                            keyword, limit)
                                          ELSE <<>>))
  /\ pc' = "finally"
  /\ UNCHANGED << op, url, otherVars, keyword, limit, scrapeVars, escaped, idx, handler,
                  page, cursor, version, endpoint, stop >>

\* discover_products lines 64-66: an exception of close() replaces the return
Finally ==
  /\ pc = "finally"
  /\ IF handler # 0
     THEN /\ inst' = [inst EXCEPT ![handler] = close(@)]
          /\ \E acloseRaises \in BOOLEAN, m \in ExcMsgs :
               IF inst[handler].client = "open" /\ acloseRaises
               THEN ret' = None /\ escaped' = Some(m)
               ELSE UNCHANGED << ret, escaped >>
     ELSE UNCHANGED << inst, ret, escaped >>
  /\ pc' = "done"
  /\ UNCHANGED << op, url, otherVars, keyword, limit, scrapeVars, requests, idx, handler,
                  loopVars, allFailed >>

Next ==
  \/ ScrapeStart
  \/ ScrapeDelay
  \/ ScrapeHttpx
  \/ ScrapePlaywright
  \/ DiscoverStart
  \/ DetectShopify
  \/ DetectWoo
  \/ DetectAmazon
  \/ DetectEbay
  \/ DetectGeneric
  \/ DetectFallback
  \/ ShopifyFetchStart
  \/ ShopifyJsonPage
  \/ ShopifyJsonEnd
  \/ StorefrontPage
  \/ StorefrontCap
  \/ ShopifyReturn
  \/ WooFetchStart
  \/ WooPage
  \/ WooReturn
  \/ AmazonFetchStart
  \/ EbayFetchStart
  \/ MarketPage
  \/ MarketReturn
  \/ GenericFetch
  \/ Finally

Spec == Init /\ [][Next]_vars

\* every step of a call is a coroutine step the event loop resumes
FairSpec == Spec /\ WF_vars(Next)

\* ====================================================================
\* Properties
\* ====================================================================
IsScrape == op = "scrape"
IsDiscover == op = "discover"
Returned == ~IsNone(ret)

\* C1: no outbound request is issued for a URL unless validate_url accepted
\* that URL earlier in the same call (scrape_url and discover_products alike).
C1_FetchOnlyValidated == \A r \in requests : r.u \in validated

\* C2: every ScrapeResult scrape_url returns has status success or failed;
\* success implies a price, failed implies no price.
C2_ScrapeResultInvariant ==
  (IsScrape /\ Returned) =>
     /\ Val(ret).status \in { "success", "failed" }
     /\ (Val(ret).status = "success" => ~IsNone(Val(ret).price))
     /\ (Val(ret).status = "failed" => IsNone(Val(ret).price))

\* a success of the second tier
C2_Witness ==
  /\ IsScrape /\ pc = "done" /\ Returned
  /\ Val(ret).status = "success"
  /\ \E r \in requests : r.what = "playwright"

\* the text is rejected by normalize_url: blank, insecure or not a domain
BadForm(u) ==
  u \in { <<" "," ">>, <<"h","t","t","p",":","/","/","s","h","o","p",".","e","x","a","m","p","l","e",".","c","o","m","/">>, <<"l","o","c","a","l","h","o","s","t">> }
\* the text normalizes and the result is rejected by validate_url
BadTarget(u) ==
  u \in { <<"h","t","t","p","s",":","/","/","1","9","2",".","1","6","8",".","1",".","1","/","x">>, <<"h","t","t","p","s",":","/","/","[","b","a","d","/">> }

\* C3: when the input fails normalization or validation, scrape_url returns a
\* failed result (no price) carrying that error, before the delay and without
\* any HTTP fetch or browser render.
C3_ShortCircuit ==
  (IsScrape /\ (BadForm(url) \/ BadTarget(url))) =>
     /\ pc = "done" /\ Returned
     /\ Val(ret).status = "failed" /\ IsNone(Val(ret).price)
     /\ BadForm(url) => Val(ret).error_message \in { Some(ErrEmpty), Some(ErrHttp), Some(ErrFormat) }
     /\ BadTarget(url) => Val(ret).error_message \in { Some(ErrInvalid), Some(ErrPrivate) }
     /\ ~delayed
     /\ requests = {}

\* a private address is turned down by the validator
C3_Witness ==
  /\ IsScrape /\ pc = "done" /\ BadTarget(url) /\ Returned
  /\ Val(ret).error_message = Some(ErrPrivate)
  /\ requests = {}

\* detect_platform is over
Detected == IsDiscover /\ pc \notin { "idle", "detect" }

\* C4: discover_products never propagates an exception: whatever raises
\* (detection, fetch_products, close), it returns a DiscoveryResult, and an
\* error result is ("unknown", 0, [], message of at most 200 characters).
C4_NeverPropagates ==
  (IsDiscover /\ pc = "done") =>
     /\ IsNone(escaped)
     /\ Returned
     /\ ~IsNone(Val(ret).error) =>
          /\ Val(ret).platform = "unknown"
          /\ Val(ret).total_found = 0
          /\ Val(ret).products = <<>>
          /\ Val(Val(ret).error).len <= ErrTruncLen

\* C5: when every request of a discovery call failed (unreachable host), the
\* DiscoveryResult has its error set and no products.
C5_TotalFailureReported ==
  (IsDiscover /\ pc = "done" /\ Returned /\ requests # {} /\ allFailed) =>
     /\ ~IsNone(Val(ret).error)
     /\ Val(ret).products = <<>>

\* C6: the handler detect_platform returned is closed exactly once by the time
\* the call is over, on success and on failure; its client is not left open
\* and no client is closed twice.
C6_ClosedExactlyOnce ==
  /\ \A i \in Insts : inst[i].acloses <= 1
  /\ (IsDiscover /\ pc = "done") =>
        /\ handler # 0
        /\ inst[handler].closeCalls = 1
        /\ inst[handler].client # "open"
  /\ (Detected /\ pc # "done" /\ handler # 0) => inst[handler].closeCalls = 0

\* a handler that had opened its client is closed after a successful fetch
C6_Witness ==
  /\ IsDiscover /\ pc = "done" /\ Returned
  /\ IsNone(Val(ret).error)
  /\ handler # 0
  /\ inst[handler].client = "closed"
  /\ inst[handler].acloses = 1

\* C7: once detect_platform has returned, no handler it instantiated other
\* than the one it returned holds an open HTTP client.
C7_LosersClosed ==
  Detected => \A i \in Insts : (inst[i].made /\ i # handler) => inst[i].client # "open"

NoMatch(i) == inst[i].probe \in { "false", "raised" }

\* C8: detect_platform probes in the order Shopify, WooCommerce, Amazon, eBay,
\* Generic, returns the first handler whose detect is true without probing a
\* later one, treats a raising detect as no match, returns a Generic handler
\* when none matches, and neither raises nor returns None.
C8_FirstMatchWins ==
  /\ IsDiscover =>
       \A i \in 1..Len(HANDLER_CLASSES) :
          inst[i].made => \A j \in 1..(i - 1) : NoMatch(j)
  /\ Detected =>
       /\ handler # 0
       /\ inst[handler].made
       /\ handler # Fallback =>
            /\ inst[handler].probe = "true"
            /\ \A j \in (handler + 1)..Len(HANDLER_CLASSES) : ~inst[j].made
       /\ handler = Fallback =>
            /\ \A j \in 1..Len(HANDLER_CLASSES) : NoMatch(j)
            /\ platform_name(handler) = "custom"

\* a detect raised, detection went on and ended with the Generic fallback
C8_Witness ==
  /\ Detected
  /\ handler = Fallback
  /\ inst[WooCommerce].probe = "raised"
  /\ inst[Shopify].probe = "false"

\* the searchable text of p contains a word of the call's keyword (every
\* product does when there is no keyword)
MatchesKeyword(p) ==
  \/ IsNone(keyword)
  \/ Val(keyword) = <<>>
  \/ \E i \in 1..Len(Val(keyword)) : Val(keyword)[i] \in p.words

\* positions, in fetch order, of the aggregated products the keyword matches
Matching == { i \in 1..Len(products) : MatchesKeyword(products[i]) }

\* C9: ShopifyHandler.fetch_products filters only after pagination is over:
\* the loop is left by a terminal answer or by the max-fetch cap, never because
\* of keyword or limit, and the result is the first `limit` keyword-matching
\* products, in fetch order, of everything aggregated.
C9_FilterAfterPagination ==
  (IsDiscover /\ handler = Shopify /\ pc = "finally" /\ Returned) =>
     LET res == Val(ret).products IN
     /\ stop \in { "break", "guard" }
     /\ stop = "guard" => Len(products) >= MaxFetch
     /\ Len(res) = Min(limit, Cardinality(Matching))
     /\ \A k \in 1..Len(res) :
          \E i \in Matching :
             /\ res[k] = products[i]
             /\ Cardinality({ j \in Matching : j <= i }) = k

\* the only product the keyword matches is the last one aggregated, fetched
\* on a later page, and it is returned
C9_Witness ==
  /\ IsDiscover /\ handler = Shopify /\ pc = "finally" /\ Returned
  /\ keyword = Some(<<"a">>)
  /\ Len(products) > MaxPageLen
  /\ Matching = { Len(products) }
  /\ Val(ret).products = << products[Len(products)] >>
  /\ Val(ret).products[1].pos > MaxPageLen

\* C10: every call comes to an end whatever the servers answer (each request
\* completing or timing out); page numbers above MaxPage are outside the model.
C10_Terminates == <>(pc = "done" \/ page > MaxPage)

\* ------------------------------------------------------------ scrape tiers
\* the fetch returned a document in which some selector gives a price above 0
YieldsPrice(o) ==
  o.kind = "html" /\ \E i \in 1..Len(o.html) : Accepts(o.html[i])

\* positions in attempts of the runs of one tier
Tiers(what) == { i \in 1..Len(attempts) : attempts[i].what = what }

\* C11: in scrape_url the browser tier runs if and only if the HTTP tier
\* yielded no price (it raised, gave no usable body, or extraction found no
\* price); when the HTTP tier yields a price the browser is never invoked; the
\* HTTP tier always runs before the browser tier, each at most once.
C11_BrowserIffHttpGaveNoPrice ==
  IsScrape =>
     /\ Cardinality(Tiers("httpx")) <= 1 /\ Cardinality(Tiers("playwright")) <= 1
     /\ \A i \in Tiers("playwright") :
          \E j \in Tiers("httpx") : j < i /\ ~YieldsPrice(attempts[j].o)
     /\ \A j \in Tiers("httpx") :
          YieldsPrice(attempts[j].o) =>
             /\ Tiers("playwright") = {}
             /\ pc = "done" /\ Returned /\ Val(ret).status = "success"
     /\ (pc = "done" /\ validated # {}) =>
          /\ Tiers("httpx") # {}
          /\ (~YieldsPrice(attempts[1].o) => Tiers("playwright") # {})

\* the browser ran after the HTTP tier fetched a page without a price
C11_Witness ==
  /\ IsScrape /\ pc = "done"
  /\ Len(attempts) = 2
  /\ attempts[1].what = "httpx" /\ attempts[1].o.kind = "html"
  /\ attempts[2].what = "playwright" /\ YieldsPrice(attempts[2].o)

\* ------------------------------------------------------ scrape error text
\* positions in attempts of the tiers that raised
Raised == { i \in 1..Len(attempts) : attempts[i].o.kind = "raise" }

\* the message of the most recent tier exception
LastRaisedMsg == attempts[CHOOSE i \in Raised : \A j \in Raised : j <= i].o.msg

\* error_message is the text m cut to 200 characters
IsCutOf(e, m) == ~IsNone(e) /\ Val(e).id = m.id /\ Val(e).len = Min(m.len, 200)

\* scrape_url returned failed after running both tiers
BothTiersFailed ==
  IsScrape /\ Returned /\ Val(ret).status = "failed" /\ Len(attempts) = 2

\* C12 as stated: every failed ScrapeResult carries a non-empty error_message
\* and every successful one none; when both tiers fail the message is the most
\* recently captured tier exception message (at most 200 characters), or the
\* generic could-not-extract-price message when no tier raised.
C12_LastExceptionMessage ==
  (IsScrape /\ Returned) =>
     /\ Val(ret).status = "failed" =>
          ~IsNone(Val(ret).error_message) /\ Val(Val(ret).error_message).len > 0
     /\ Val(ret).status = "success" => IsNone(Val(ret).error_message)
     /\ BothTiersFailed =>
          IF Raised = {} THEN Val(ret).error_message = Some(ErrNoPrice)
          ELSE IsCutOf(Val(ret).error_message, LastRaisedMsg)

\* C12 amended: as above, except that the generic message is also what is
\* returned when the most recent tier exception has an empty message.
C12_LastNonEmptyMessage ==
  (IsScrape /\ Returned) =>
     /\ Val(ret).status = "failed" =>
          ~IsNone(Val(ret).error_message) /\ Val(Val(ret).error_message).len > 0
     /\ Val(ret).status = "success" => IsNone(Val(ret).error_message)
     /\ BothTiersFailed =>
          IF Raised = {} \/ LastRaisedMsg.len = 0
          THEN Val(ret).error_message = Some(ErrNoPrice)
          ELSE IsCutOf(Val(ret).error_message, LastRaisedMsg)

\* both tiers raised, the browser last and with an empty message
C12_Witness ==
  /\ BothTiersFailed /\ pc = "done"
  /\ Raised = { 1, 2 }
  /\ attempts[1].o.msg.len > 0 /\ attempts[2].o.msg.len = 0
  /\ Val(ret).error_message = Some(ErrNoPrice)

\* ====================================================================
\* parse_price (scraper_service.py 157-194)
\* ====================================================================
DigitVal(c) == CHOOSE n \in 0..9 : <<"0","1","2","3","4","5","6","7","8","9">>[n + 1] = c

RECURSIVE Num(_)
\* the number a text of digits writes
Num(ds) ==
  IF ds = <<>> THEN 0
  ELSE 10 * Num(SubSeq(ds, 1, Len(ds) - 1)) + DigitVal(ds[Len(ds)])

\* decimal.Decimal(s) for a text of digits, '.', '-', '+' and other signs:
\* the value as units * 10^(-scale), or None when the constructor raises
Decimal(s) ==
  The({ LET signed == t # <<>> /\ t[1] \in { "-", "+" }
            body == IF signed THEN Tail(t) ELSE t
            ds == Without(body, { "." })
            dot == Find(body, { "." })
        IN IF /\ ds # <<>>
              /\ Range(ds) \subseteq Digits
              /\ Len(body) - Len(ds) <= 1
           THEN Some([ neg |-> signed /\ t[1] = "-",
                       units |-> Num(ds),
                       scale |-> IF dot = 0 THEN 0 ELSE Len(body) - dot ])
           ELSE None
        : t \in {s} })

Currencies == { "USD", "NGN", "GBP", "EUR", "CAD" }

\* a detection that looks for the pound sign first
DetectCurrency_GbpFirst(t) ==
  IF "pound" \in Range(t) THEN "GBP"
  ELSE IF "naira" \in Range(t) \/ HasSub(Upper(t), <<"N","G","N">>) THEN "NGN"
  ELSE IF "euro" \in Range(t) THEN "EUR"
  ELSE IF HasSub(t, <<"C","A","D">>) \/ HasSub(t, <<"C","$">>) THEN "CAD"
  ELSE "USD"

\* lines 166-175: the currency of a stripped text
DetectCurrency(t) ==
  IF "naira" \in Range(t) \/ HasSub(Upper(t), <<"N","G","N">>) THEN "NGN"
  ELSE IF "pound" \in Range(t) THEN "GBP"
  ELSE IF "euro" \in Range(t) THEN "EUR"
  ELSE IF HasSub(t, <<"C","A","D">>) \/ HasSub(t, <<"C","$">>) THEN "CAD"
  ELSE "USD"

\* lines 178-180: both re.sub calls
Clean(t) == Without(Without(t, { "pound", "euro", "$", "naira", "," } \cup Blank), Letters)

\* lines 182-192: the separator branches, applied to the cleaned text
Separate(cleaned) ==
  The({ IF "," \in Range(c) /\ "." \in Range(c)
        THEN IF RFind(c, { "," }) > RFind(c, { "." })
             THEN Replace(Without(c, { "." }), ",", ".")
             ELSE c
        ELSE IF "," \in Range(c)
        THEN IF Len(c) - RFind(c, { "," }) = 2
             THEN Replace(c, ",", ".")
             ELSE Without(c, { "," })
        ELSE c
        : c \in {cleaned} })

\* parse_price: <<amount or None, currency>>
parse_price(txt) ==
  IF txt = <<>> THEN <<None, "USD">>
  ELSE The({ <<Decimal(Separate(Clean(t))), DetectCurrency(t)>> : t \in { Strip(txt) } })

PriceChars ==
  { "0", "1", "5", ".", ",", "-", "$", "euro", "pound", "naira", " ",
    "N", "G", "C", "A", "D", "n", "%" }

\* price texts as pages show them
SampleTexts ==
  { <<"$","2","9",".","9","9">>, <<"pound","4","9",".","9","9">>, <<"euro","1","9",".","9","9">>, <<"$","1",",","2","9","9",".","9","9">>, <<"euro","1",".","2","3","4",",","5","6">>,
    <<"1","2",",","5","0">>, <<"1",",","2","3","4">>, <<"1",".","2","3","4",".","5","6","7",",","8","9">>, <<"1",",","2","3","4",",","5","6","7",".","8","9">>, <<"euro"," ","1","2",",","5">>,
    <<"N","G","N"," ","5",",","0","0","0">>, <<"naira","pound","5","0">>, <<"pound","euro","1">>, <<"euro","C","A","D"," ","5">>, <<"C","$","1","5",".","5","0">>, <<"C","A","D"," ","1","0">>,
    <<"c","a","d"," ","1","0">>, <<"n","g","n"," ","1","0">>, <<"U","S","D"," ","1","0">>, <<"F","r","e","e">>, <<" ","$","5"," ">>, <<"$","-","5">>,
    <<"1",".","2",".","3">>, <<"P","r","i","c","e",":"," ","$","5">> }

PriceTexts == SeqsUpTo(PriceChars, MaxTextLen) \cup SampleTexts

Result(fn, val) == [fn |-> fn, val |-> val]

InitPrice ==
  /\ NoCall
  /\ url = <<>>
  /\ text \in PriceTexts
  /\ out = None
  /\ NoRequest
  /\ NoTask

callVars == << pc, op, url, keyword, limit, scrapeVars, requests, ret, escaped,
               detectVars, loopVars, allFailed >>

\* one call parse_price(text)
ParsePrice ==
  /\ out = None
  /\ out' = Some(Result("parse_price", parse_price(text)))
  /\ UNCHANGED << callVars, text, rows, calls, taskVars >>

NextPrice == ParsePrice

SpecPrice == InitPrice /\ [][NextPrice]_vars

\* parse_price(text) has returned
Parsed == ~IsNone(out) /\ Val(out).fn = "parse_price"
Amount == Val(out).val[1]
Currency == Val(out).val[2]

\* a decimal without trailing zeros after the point
RECURSIVE Canon(_)
Canon(d) ==
  IF d.scale > 0 /\ d.units % 10 = 0
  THEN Canon([d EXCEPT !.units = @ \div 10, !.scale = @ - 1])
  ELSE IF d.units = 0 THEN [d EXCEPT !.neg = FALSE] ELSE d

\* the text is an amount: digits and separators, with currency signs and blanks
IsAmountText(t) ==
  /\ Range(t) \subseteq Digits \cup { ".", ",", "$", "euro", "pound", "naira" } \cup Blank
  /\ Range(t) \cap Digits # {}

\* the digits of an amount text with its separators read as the specification
\* says: with both ',' and '.' the rightmost is the decimal point and the
\* other is removed; a lone ',' is the decimal point when exactly two digits
\* follow it and a thousands separator otherwise
Disambiguated(t) ==
  The({ IF "," \in Range(b) /\ "." \in Range(b)
        THEN IF RFind(b, { "," }) > RFind(b, { "." })
             THEN Replace(Without(b, { "." }), ",", ".")
             ELSE Without(b, { "," })
        ELSE IF "," \in Range(b)
        THEN IF Len(b) - RFind(b, { "," }) = 2
             THEN Replace(b, ",", ".")
             ELSE Without(b, { "," })
        ELSE b
        : b \in { Without(t, { "$", "euro", "pound", "naira" } \cup Blank) } })

\* C13: parse_price disambiguates separators: with both ',' and '.' in the
\* text the rightmost is the decimal point and the other is removed ("1.234,56"
\* in euros is 1234.56 EUR, "$1,299.99" is 1299.99 USD); a lone ',' is the
\* decimal point when exactly two digits follow it and a thousands separator
\* otherwise.
C13_SeparatorsDisambiguated ==
  (Parsed /\ IsAmountText(text) /\ ~IsNone(Decimal(Disambiguated(text)))) =>
     /\ ~IsNone(Amount)
     /\ Canon(Val(Amount)) = Canon(Val(Decimal(Disambiguated(text))))

\* the currency the precedence of the specification gives a text
Precedence(t) ==
  IF "naira" \in Range(t) \/ HasSub(Upper(t), <<"N","G","N">>) THEN "NGN"
  ELSE IF "pound" \in Range(t) THEN "GBP"
  ELSE IF "euro" \in Range(t) THEN "EUR"
  ELSE IF HasSub(t, <<"C","A","D">>) \/ HasSub(t, <<"C","$">>) THEN "CAD"
  ELSE "USD"

\* C14: parse_price returns for every text, never raising; the currency follows
\* the precedence naira sign or NGN, pound sign, euro sign, CAD marker, else
\* USD, whether the amount parses or not; a text without a number gives
\* (None, that currency) and the empty text (None, "USD").
C14_TotalWithCurrencyPrecedence ==
  Parsed =>
     /\ Currency = Precedence(text)
     /\ IsNone(Amount) \/ Val(Amount).units \in Nat
     /\ Range(text) \cap Digits = {} => IsNone(Amount)
     /\ text = <<>> => Val(out).val = <<None, "USD">>

\* a text with a naira sign and a pound sign whose amount parses, and one
\* with a euro sign whose amount does not
C14_Witness ==
  /\ Parsed
  /\ \/ /\ { "naira", "pound" } \subseteq Range(text)
        /\ ~IsNone(Amount) /\ Currency = "NGN"
     \/ /\ "euro" \in Range(text) /\ Range(text) \cap Digits = {}
        /\ IsNone(Amount) /\ Currency = "EUR"

(***************************************************************************)
(* normalize_url and validate_url as functions of their argument.  The     *)
(* argument is composed of blanks, a scheme prefix, a host and a path, so  *)
(* that a property can speak about the parts without parsing the text.     *)
(***************************************************************************)

UrlPads == { <<>>, <<" ">> }

HttpsPrefix == <<"h","t","t","p","s",":","/","/">>

UrlSchemes == { <<>>, HttpsPrefix, <<"h","t","t","p",":","/","/">>, <<"H","T","T","P",":","/","/">>, <<"H","T","T","P","S",":","/","/">>, <<"f","t","p",":","/","/">> }

Host(kind, texts) == { [text |-> t, kind |-> kind] : t \in texts }

UrlHosts ==
  Host("public", { <<"e","x","a","m","p","l","e",".","c","o","m">>, <<"w","w","w",".","a","m","a","z","o","n",".","c","o","m">>, <<"S","h","o","p",".","E","x","a","m","p","l","e",".","C","O","M">>,
                   <<"e","x","a","m","p","l","e",".","c","o","m",":","8","0","8","0">>, <<"u","s","e","r","@","e","x","a","m","p","l","e",".","c","o","m">>, <<"1","1",".","0",".","0",".","1">>,
                   <<"1","7","2",".","1","5",".","0",".","1">>, <<"1","7","2",".","3","2",".","0",".","1">>, <<"1","9","2",".","1","6","9",".","1",".","1">>,
                   <<"[","2","0","0","1",":","d","b","8",":",":","1","]">>, <<"f","c","0","0",".","e","x","a","m","p","l","e",".","c","o","m">>, <<"l","o","c","a","l","e",".","e","x","a","m","p","l","e">> })
  \cup Host("loopback", { <<"l","o","c","a","l","h","o","s","t">>, <<"L","O","C","A","L","H","O","S","T">>, <<"l","o","c","a","l","h","o","s","t",":","8","0","0","0">>,
                          <<"u","s","e","r","@","l","o","c","a","l","h","o","s","t">>, <<"1","2","7",".","0",".","0",".","1">>, <<"1","2","7",".","1">>, <<"[",":",":","1","]">> })
  \cup Host("private", { <<"1","0",".","0",".","0",".","1">>, <<"1","7","2",".","1","6",".","0",".","1">>, <<"1","7","2",".","2","0",".","1",".","1">>,
                         <<"1","7","2",".","3","1",".","2","5","5",".","2","5","5">>, <<"1","9","2",".","1","6","8",".","1",".","1">> })
  \cup Host("link-local", { <<"1","6","9",".","2","5","4",".","1",".","1">>, <<"[","f","e","8","0",":",":","1","]">>, <<"[","F","E","8","0",":",":","1","]">> })
  \cup Host("unique-local", { <<"[","f","c","0","0",":",":","1","]">>, <<"[","f","d","1","2",":","3","4","5","6",":",":","1","]">>, <<"[","f","d","f","f",":",":","]">> })
  \cup Host("metadata", { <<"1","6","9",".","2","5","4",".","1","6","9",".","2","5","4">>, <<"m","e","t","a","d","a","t","a",".","g","o","o","g","l","e",".","i","n","t","e","r","n","a","l">> })
  \cup Host("suffix", { <<"p","r","i","n","t","e","r",".","l","o","c","a","l">>, <<"a","p","i",".","i","n","t","e","r","n","a","l">>, <<"g","i","t",".","c","o","r","p">>, <<"n","a","s",".","l","a","n">>,
                        <<"m","y",".","h","o","m","e">>, <<"w","i","k","i",".","i","n","t","r","a","n","e","t">>, <<"N","A","S",".","L","A","N">> })
  \cup Host("other", { <<>>, <<"s","h","o","p">>, <<"m","y"," ","s","h","o","p",".","c","o","m">>, <<"[","b","a","d">> })

UrlPaths == { <<>>, <<"/">>, <<"/","t","e","s","t">>, <<"/","d","p","/","B","0","1","?","x","=","1">> }

UrlTexts ==
  { a \o s \o h.text \o p \o b :
      a \in UrlPads, s \in UrlSchemes, h \in UrlHosts, p \in UrlPaths, b \in UrlPads }

InitUrl ==
  /\ NoCall
  /\ url \in UrlTexts
  /\ text = <<>>
  /\ out = None
  /\ NoRequest
  /\ NoTask

\* one call normalize_url(url)
NormalizeUrl ==
  /\ out = None
  /\ out' = Some(Result("normalize_url", normalize_url(url)))
  /\ UNCHANGED << callVars, text, rows, calls, taskVars >>

\* one call validate_url(url); its callers pass a text without surrounding blanks
ValidateUrl ==
  /\ out = None
  /\ Strip(url) = url
  /\ out' = Some(Result("validate_url", validate_url(url)))
  /\ UNCHANGED << callVars, text, rows, calls, taskVars >>

NextUrl == NormalizeUrl \/ ValidateUrl

SpecUrl == InitUrl /\ [][NextUrl]_vars

\* the result of the call of fn, once it has returned
Answered(fn) == out # None /\ Val(out).fn = fn

\* the prefixes that make urlparse report the scheme https
HttpsSchemes == { HttpsPrefix, <<"H","T","T","P","S",":","/","/">> }

\* the kinds of host validate_url is to reject
BlockedKinds == { "loopback", "private", "link-local", "unique-local", "metadata", "suffix" }

\* C15: normalize_url trims the blanks and then rejects http:// with the
\* message about HTTPS, returns unchanged a text beginning with https://,
\* prepends https:// to a text without a scheme that has a '.' and no space,
\* and fails with the invalid-format error otherwise (the empty text may fail
\* with another error, and so may http:// in capitals); exactly one of
\* (url, error) is set and a returned url begins with https://.
C15_NormalizeCases ==
  \A a \in UrlPads, s \in UrlSchemes, h \in UrlHosts, p \in UrlPaths, b \in UrlPads :
    (url = a \o s \o h.text \o p \o b /\ Answered("normalize_url")) =>
      \E u \in { s \o h.text \o p }, r \in { Val(out).val } :
        /\ (r[1] = None) # (r[2] = None)
        /\ r[1] # None => StartsWith(Val(r[1]), HttpsPrefix)
        /\ IF u = <<>> THEN r[1] = None
           ELSE IF s = <<"h","t","t","p",":","/","/">> THEN r = <<None, Some(ErrHttp)>>
           ELSE IF s = <<"H","T","T","P",":","/","/">> THEN r[1] = None
           ELSE IF s = HttpsPrefix THEN r = <<Some(u), None>>
           ELSE IF s = <<>> /\ "." \in Range(u) /\ " " \notin Range(u)
                THEN r = <<Some(HttpsPrefix \o u), None>>
           ELSE r = <<None, Some(ErrFormat)>>

ValidateMessages == { ErrHttpsOnly, ErrPrivate, ErrInvalid }

\* the retailer hosts the whitelist is said to hold
RetailerHosts == { <<"w","w","w",".","a","m","a","z","o","n",".","c","o","m">> }

\* C20: validate_url rejects an https URL of a public host outside the
\* retailer whitelist with an error about the whitelist, and accepts the
\* URL of a whitelisted retailer without error.
C20_WhitelistEnforced ==
  \A h \in UrlHosts, p \in UrlPaths :
    (url = HttpsPrefix \o h.text \o p /\ h.kind = "public" /\ Answered("validate_url")) =>
      \E r \in { Val(out).val } :
        IF h.text \in RetailerHosts
        THEN r = <<TRUE, None>>
        ELSE r[1] = FALSE /\ r[2] # None /\ Val(r[2]) \notin ValidateMessages

\* ------------------------------------------------------- discovery results
\* C17: every DiscoveryResult of discover_products (limit >= 0) has
\* total_found = len(products) <= limit, whichever handler served the call.
C17_TotalFoundWithinLimit ==
  (IsDiscover /\ Returned /\ limit >= 0) =>
     /\ Val(ret).total_found = Len(Val(ret).products)
     /\ Len(Val(ret).products) <= limit

\* the Amazon handler aggregated more products than the limit and cut them
C17_Witness ==
  /\ IsDiscover /\ Returned /\ handler = Amazon /\ pc = "finally"
  /\ limit > 0
  /\ Len(products) > limit
  /\ Val(ret).total_found = limit
  /\ Val(ret).products = Slice(products, limit)

\* the request of GenericHandler.fetch_products
GenericRequested == Req(url, "page") \in requests

\* C18: GenericHandler.fetch_products never throws: whatever the URL and the
\* outcome of its request, discover_products gets a list from it (no exception
\* reaches its except clause), and the list is empty when nothing was fetched.
C18_GenericNeverThrows ==
  (IsDiscover /\ handler \in { Generic, Fallback } /\ pc = "finally") =>
     /\ Returned /\ IsNone(escaped)
     /\ IsNone(Val(ret).error)
     /\ Val(ret).platform = platform_name(handler)
     /\ (~GenericRequested \/ allFailed) => Val(ret).products = <<>>

\* every request of the call failed, the generic one included
C18_Witness ==
  /\ IsDiscover /\ handler \in { Generic, Fallback } /\ pc = "finally"
  /\ GenericRequested /\ allFailed
  /\ Returned /\ IsNone(Val(ret).error) /\ Val(ret).products = <<>>

(***************************************************************************)
(* The product-creating routes.  The user's requests are served at the     *)
(* same time; each access to table products is one step, and between the   *)
(* count and the insert of create_product the other requests may run.      *)
(***************************************************************************)

HTTP_201_CREATED == 201
HTTP_400_BAD_REQUEST == 400
HTTP_500_INTERNAL_SERVER_ERROR == 500

InitApi ==
  /\ NoCall
  /\ url = <<>>
  /\ text = <<>>
  /\ out = None
  /\ NoRequest
  /\ NoTask

\* the request of call c is answered with a status code
Respond(c, code) == calls' = [calls EXCEPT ![c] = [pc |-> "idle", last |-> code]]

\* create_product lines 56-62: the count query and the comparison with the cap
CreateProductCount(c) ==
  /\ calls[c].pc = "idle"
  /\ IF rows >= MAX_PRODUCTS_PER_USER
     THEN Respond(c, HTTP_400_BAD_REQUEST)
     ELSE calls' = [calls EXCEPT ![c] = [pc |-> "insert", last |-> 0]]
  /\ UNCHANGED << callVars, text, out, rows, taskVars >>

\* the insert into products of one row of the user; the table returns the row
\* or no data
InsertProduct(c) ==
  /\ rows < MaxRows
  /\ \E stored \in BOOLEAN :
       IF stored
       THEN rows' = rows + 1 /\ Respond(c, HTTP_201_CREATED)
       ELSE UNCHANGED rows /\ Respond(c, HTTP_500_INTERNAL_SERVER_ERROR)

\* create_product from line 64 on: the insert, then the competitors
CreateProductInsert(c) ==
  /\ calls[c].pc = "insert"
  /\ InsertProduct(c)
  /\ UNCHANGED << callVars, text, out, taskVars >>

\* track_products: the group is inserted into products without a count
TrackProducts(c) ==
  /\ calls[c].pc = "idle"
  /\ InsertProduct(c)
  /\ UNCHANGED << callVars, text, out, taskVars >>

NextApi ==
  \E c \in Calls :
    \/ CreateProductCount(c)
    \/ CreateProductInsert(c)
    \/ TrackProducts(c)

SpecApi == InitApi /\ [][NextApi]_vars

\* C19: a user never owns more than MAX_PRODUCTS_PER_USER products, whatever
\* the sequence of POST /products and POST /stores/track requests, concurrent
\* ones included.
C19_AtMostMaxProducts == rows <= MAX_PRODUCTS_PER_USER

\* --------------------------------------------------------- paging handlers
\* C21: in one discovery call the products the Shopify handler (either path)
\* and the WooCommerce handler aggregate before keyword filtering never
\* number more than the max-fetch cap, whatever the size of the pages.
C21_AggregateWithinMaxFetch ==
  (IsDiscover /\ handler \in { Shopify, WooCommerce }) => Len(products) <= MaxFetch

(***************************************************************************)
(* WooCommerceHandler.detect and the endpoint search of fetch_products on  *)
(* one store whose endpoints give the same answer to every probe.          *)
(***************************************************************************)

InitWoo ==
  /\ NoCall
  /\ url = <<>>
  /\ text = <<>>
  /\ out = None
  /\ NoRequest
  /\ store \in [WooEndpoints -> WooAnswers]
  /\ NoDoc
  /\ NoItems
  /\ NoAlerts
  /\ NoDigest
  /\ NoRuns
  /\ NoManual

\* detect lines 26-39: the first endpoint answering a non-empty list (0: False)
WooDetect ==
  /\ out = None
  /\ out' = Some(Result("detect", [accepted |-> FirstEndpoint(store, { "ok_list" })]))
  /\ UNCHANGED << callVars, text, rows, calls, taskVars >>

\* _find_working_endpoint: the first endpoint answering 200 with a list (0: None)
find_working_endpoint(rs) == FirstEndpoint(rs, { "ok_list", "ok_empty" })

\* fetch_products lines 62-65 on the store detect accepted
WooFindEndpoint ==
  /\ out # None /\ Val(out).fn = "detect" /\ Val(out).val.accepted # 0
  /\ out' = Some(Result("fetch_products",
                         [accepted |-> Val(out).val.accepted,
                          working |-> find_working_endpoint(store)]))
  /\ UNCHANGED << callVars, text, rows, calls, taskVars >>

NextWoo == WooDetect \/ WooFindEndpoint

SpecWoo == InitWoo /\ [][NextWoo]_vars

\* C22: on a store whose endpoints answer consistently, the endpoint
\* fetch_products paginates is the one detect accepted, the first of store,
\* v3, v2 that answers a non-empty list; an earlier endpoint answering 200
\* with an empty list is not chosen.
C22_FetchUsesDetectedEndpoint ==
  Answered("fetch_products") =>
     /\ Val(out).val.working = Val(out).val.accepted
     /\ store[Val(out).val.working] = "ok_list"

\* ------------------------------------------------------ Shopify fallback
InShopifyFetch == IsDiscover /\ handler = Shopify

\* the last position in api_versions
LastVersion == Cardinality(ApiVersions)

\* one step of ShopifyHandler.fetch_products keeps to the fallback order
StorefrontOrder ==
  /\ \* the Storefront API is queried inside the fallback only
     Req(url, "storefront") \in requests' \ requests => pc = "sh_sf"
  /\ \* the fallback begins, with the first version, only after /products.json gave nothing
     (pc # "sh_sf" /\ pc' = "sh_sf") =>
        pc \in { "sh_json", "sh_json_end" } /\ products = <<>> /\ version' = 1
  /\ \* and it begins whenever /products.json gave nothing
     (pc \in { "sh_json", "sh_json_end" } /\ pc' \notin { "sh_json", "sh_json_end" }) =>
        (pc' = "sh_sf") = (products = <<>>)
  /\ \* the next version is tried, in order, only after a version that yielded nothing
     (pc = "sh_sf" /\ version' # version) =>
        version' = version + 1 /\ products' = <<>> /\ pc' = "sh_sf"
  /\ \* the fallback returns the products of the first version that yielded some,
     \* or nothing after the last version
     (pc = "sh_sf" /\ pc' # "sh_sf") =>
        /\ pc' = "sh_ret" /\ version' = version
        /\ products' # <<>> \/ version = LastVersion

\* C23: ShopifyHandler.fetch_products queries the Storefront API if and only
\* if the /products.json path produced no product; it tries the API versions in
\* their order, returns the products of the first version that yields some
\* without querying a later one, and returns the empty list when none does.
C23_StorefrontFallbackOrder == [][InShopifyFetch => StorefrontOrder]_vars

\* the second or third version yielded the products returned
C23_Witness ==
  /\ InShopifyFetch /\ pc = "finally" /\ Returned
  /\ Req(url, "storefront") \in requests
  /\ version \in 2..(LastVersion - 1)
  /\ products # <<>>
  /\ Val(ret).products = fetch_return(products, keyword, limit)

(***************************************************************************)
(* extract_price_from_html on a document given by the elements the         *)
(* selectors of each group match, each element by what parse_price makes   *)
(* of its text, in document order.                                         *)
(***************************************************************************)

\* the keys of PRICE_SELECTORS
PRICE_SELECTORS == { "shopify", "woocommerce", "generic" }

\* get_retailer: the legacy answer
get_retailer(u) == "unknown"

\* detect_platform_from_html: what the signature strings of the HTML say
Platforms == { None, Some("shopify"), Some("woocommerce") }

Docs ==
  { [platform |-> p,
     matches |-> [g \in PRICE_SELECTORS |->
                    IF g = "shopify" THEN a ELSE IF g = "woocommerce" THEN b ELSE c]] :
      p \in Platforms, a \in SeqsUpTo(Cand, MaxMatch), b \in SeqsUpTo(Cand, MaxMatch),
      c \in Htmls }

\* selector_groups of lines 202-215
selector_groups(retailer, platform) ==
  (IF retailer \in PRICE_SELECTORS THEN << retailer >> ELSE <<>>)
  \o (IF retailer = "unknown" /\ platform # None /\ Val(platform) \in PRICE_SELECTORS
      THEN << Val(platform) >> ELSE <<>>)
  \o << "generic" >>

\* the elements the loops of lines 218-236 visit, in the order they visit them
RECURSIVE Visited(_, _)
Visited(d, groups) ==
  IF groups = <<>> THEN <<>>
  ELSE d.matches[Head(groups)] \o Visited(d, Tail(groups))

\* the cascade of the document as scrape_url has it extracted
Cascade(d) == Visited(d, selector_groups(get_retailer(url), d.platform))

InitExtract ==
  /\ NoCall
  /\ url = <<>>
  /\ text = <<>>
  /\ out = None
  /\ NoRequest
  /\ NoStore
  /\ doc \in { Some(d) : d \in Docs }
  /\ NoItems
  /\ NoAlerts
  /\ NoDigest
  /\ NoRuns
  /\ NoManual

\* one call extract_price_from_html(html, retailer)
ExtractPrice ==
  /\ out = None
  /\ out' = Some(Result("extract_price_from_html", extract_price_from_html(Cascade(Val(doc)))))
  /\ UNCHANGED << callVars, text, rows, calls, taskVars >>

\* one tier of scrape_url on the document (lines 357-360)
ExtractTier ==
  /\ out = None
  /\ out' = Some(Result("scrape_url",
                         TierReturn([kind |-> "html", msg |-> Msg("", 0),
                                     html |-> Cascade(Val(doc))])))
  /\ UNCHANGED << callVars, text, rows, calls, taskVars >>

NextExtract == ExtractPrice \/ ExtractTier

SpecExtract == InitExtract /\ [][NextExtract]_vars

\* the elements in the order of the claim: those of the platform the HTML
\* shows, then those of the generic selectors
InOrder(d) ==
  (IF d.platform = None THEN <<>> ELSE d.matches[Val(d.platform)]) \o d.matches["generic"]

\* positions of InOrder(d) whose text parses to a strictly positive amount
Positive(d) ==
  { i \in 1..Len(InOrder(d)) : InOrder(d)[i][1] # None /\ Val(InOrder(d)[i][1]) > 0 }

\* C24: extract_price_from_html returns the price of the earliest element, in
\* cascade order, whose text parses to a strictly positive amount, and no
\* price when there is none; so a tier of scrape_url succeeds only with a
\* price above zero, never with a zero or negative amount.
C24_FirstPositiveInCascade ==
  /\ Answered("extract_price_from_html") =>
       IF Positive(Val(doc)) = {}
       THEN Val(out).val[1] = None
       ELSE \E i \in Positive(Val(doc)) :
              /\ \A j \in Positive(Val(doc)) : i <= j
              /\ Val(out).val = InOrder(Val(doc))[i]
  /\ (Answered("scrape_url") /\ Val(out).val # None) =>
       /\ Val(Val(out).val).status = "success"
       /\ Val(Val(out).val).price # None
       /\ Val(Val(Val(out).val).price) > 0

\* a non-positive amount of the platform's selectors was passed over for a
\* later positive one of the generic selectors
C24_Witness ==
  /\ Answered("extract_price_from_html")
  /\ Val(doc).platform # None
  /\ Len(InOrder(Val(doc))) >= 3
  /\ InOrder(Val(doc))[1][1] # None
  /\ Val(InOrder(Val(doc))[1][1]) <= 0
  /\ Positive(Val(doc)) = { 3 }
  /\ Val(out).val = InOrder(Val(doc))[3]

(***************************************************************************)
(* The item loops of the handlers on one fetched page.  The page is given  *)
(* as a list of entries, each an object (Some) or no object at all (None). *)
(***************************************************************************)

InitParse ==
  /\ NoCall
  /\ url = <<>>
  /\ text = <<>>
  /\ out = None
  /\ NoRequest
  /\ NoStore
  /\ NoDoc
  /\ items \in { Some(pg) : pg \in EdgePages }
  /\ NoAlerts
  /\ NoDigest
  /\ NoRuns
  /\ NoManual

\* _parse_product starts its try before it touches the entry: an entry that is
\* no object parses to None like any other malformed product
JsonItem(e) == IF IsNone(e) THEN BadItem ELSE Val(e)

JsonItems(pg) == [i \in 1..Len(pg) |-> JsonItem(pg[i])]

\* the product loop of a JSON page, by handler
ParseJson(fn) ==
  /\ out = None
  /\ out' = Some(Result(fn, ParsePage(<<>>, JsonItems(Val(items)))))
  /\ UNCHANGED << callVars, text, rows, calls, taskVars >>

\* shopify.py 96-99
ParseShopifyJson == ParseJson("ShopifyHandler._fetch_via_products_json")

\* woocommerce.py 85-88
ParseWooJson == ParseJson("WooCommerceHandler.fetch_products")

\* shopify.py 174-178
ParseStorefrontEdges ==
  /\ out = None
  /\ out' = Some(Result("ShopifyHandler._fetch_storefront_version",
                         ParseEdges(<<>>, Val(items)).products))
  /\ UNCHANGED << callVars, text, rows, calls, taskVars >>

\* the card loop of an HTML page, by handler; soup.select gives elements only
ParseCards(fn) ==
  /\ out = None
  /\ \A i \in 1..Len(Val(items)) : ~IsNone(Val(items)[i])
  /\ out' = Some(Result(fn, ParsePage(<<>>, JsonItems(Val(items)))))
  /\ UNCHANGED << callVars, text, rows, calls, taskVars >>

\* amazon.py 131-139
ParseAmazonCards == ParseCards("AmazonHandler._parse_search_results")

\* ebay.py 126-134
ParseEbayCards == ParseCards("EbayHandler._parse_search_results")

\* generic.py 95-103
ParseGenericCards == ParseCards("GenericHandler._parse_products")

\* generic.py 268-271, the items of one JSON-LD script
ParseSchemaItems == ParseJson("GenericHandler._parse_schema_products")

NextParse ==
  \/ ParseShopifyJson
  \/ ParseWooJson
  \/ ParseStorefrontEdges
  \/ ParseAmazonCards
  \/ ParseEbayCards
  \/ ParseGenericCards
  \/ ParseSchemaItems

SpecParse == InitParse /\ [][NextParse]_vars

\* the entries of a page that are well formed, in page order
WellFormed(pg) == SelectSeq(pg, LAMBDA e : ~IsNone(e) /\ Val(e).ok)

\* C25: a malformed item of a page is skipped alone: the products a handler
\* takes from the page are its well-formed items, those before and those
\* after a malformed one, in page order.
C25_MalformedItemSkippedAlone ==
  (~IsNone(out) /\ ~IsNone(items)) =>
     /\ Len(Val(out).val) = Len(WellFormed(Val(items)))
     /\ \A i \in 1..Len(Val(out).val) :
          Val(out).val[i] = Product(i, Val(WellFormed(Val(items))[i]).words)

(***************************************************************************)
(* AlertService.check_price_change_and_alert for the competitors of one    *)
(* user.  Amounts are in cents.  Each query and each insert is one round   *)
(* trip to the database, and executions of different workers interleave    *)
(* between round trips.                                                    *)
(***************************************************************************)

MAX_PENDING_ALERTS_PER_USER == 100
MIN_SIGNIFICANT_CHANGE_AMOUNT == 500

\* executions of the check that may run at the same time
MaxChecks == 2

\* a row of pending_alerts; by is the execution that inserted it, 0 for a row
\* that was there before
AlertRow(t, w) == [alert_type |-> t, included_in_digest |-> FALSE, by |-> w]

\* the count query of lines 210-216
pending_count(tbl) == Cardinality({ i \in DOMAIN tbl : ~tbl[i].included_in_digest })

UserSettings ==
  { None } \cup { Some(r) : r \in [email_enabled : BOOLEAN, alert_price_drop : BOOLEAN,
                                    alert_price_increase : BOOLEAN] }

\* alert_threshold_percent of the competitor
Thresholds == { 5, 10 }
\* the row of price_history before the one just inserted, or None
PrevPrices == { None } \cup { Some([price |-> a, currency |-> c]) :
                                a \in { 0, 10000 }, c \in { "USD", "EUR" } }
NewPrices == { 9400, 9700, 10600, 12000 }

\* lines 156-172: the alert type of a change, or None below the threshold
alert_type_of(old_price, new_price, threshold_percent) ==
  LET change_amount == new_price - old_price IN
  IF change_amount * 100 <= -(threshold_percent * old_price) THEN Some("price_drop")
  ELSE IF change_amount * 100 >= threshold_percent * old_price THEN Some("price_increase")
  ELSE IF (IF change_amount < 0 THEN -change_amount ELSE change_amount)
            >= MIN_SIGNIFICANT_CHANGE_AMOUNT
       THEN Some(IF change_amount < 0 THEN "price_drop" ELSE "price_increase")
       ELSE None

\* lines 183-207: the settings let an alert of this type through
SettingsAllow(st, t) ==
  \/ IsNone(st)
  \/ /\ Val(st).email_enabled
     /\ ~(t = "price_drop" /\ ~Val(st).alert_price_drop)
     /\ ~(t = "price_increase" /\ ~Val(st).alert_price_increase)

AlertResult(created, t) == [alert_created |-> created, alert_type |-> t]

IdleCheck == [pc |-> "idle", alert_type |-> None, ret |-> None]

\* rows the table may hold before the checks run
StartPending == { 0, MAX_PENDING_ALERTS_PER_USER - 1, MAX_PENDING_ALERTS_PER_USER }

InitAlert ==
  /\ NoCall
  /\ url = <<>>
  /\ text = <<>>
  /\ out = None
  /\ NoRequest
  /\ NoStore
  /\ NoDoc
  /\ NoItems
  /\ settings \in UserSettings
  /\ \E n \in StartPending : pending = [i \in 1..n |-> AlertRow("price_drop", 0)]
  /\ checks = [w \in 1..MaxChecks |-> IdleCheck]
  /\ NoDigest
  /\ NoRuns
  /\ NoManual

CheckReturns(w, r) ==
  checks' = [checks EXCEPT ![w] = [pc |-> "done", alert_type |-> @.alert_type, ret |-> Some(r)]]

\* lines 70-225: from the competitor query to the count of the pending alerts
AlertCheck(w) ==
  /\ checks[w].pc = "idle"
  /\ \E prev \in PrevPrices, new_price \in NewPrices, currency \in { "USD", "EUR" },
        threshold_percent \in Thresholds, raises \in BOOLEAN :
       IF raises
       THEN CheckReturns(w, AlertResult(FALSE, None)) /\ UNCHANGED pending
       ELSE IF IsNone(prev)
       THEN CheckReturns(w, AlertResult(FALSE, None)) /\ UNCHANGED pending
       ELSE IF Val(prev).currency # currency
       THEN /\ pending' = Append(pending, AlertRow("currency_changed", w))
            /\ CheckReturns(w, AlertResult(TRUE, Some("currency_changed")))
       ELSE IF Val(prev).price = 0
       THEN CheckReturns(w, AlertResult(FALSE, None)) /\ UNCHANGED pending
       ELSE LET t == alert_type_of(Val(prev).price, new_price, threshold_percent) IN
            /\ UNCHANGED pending
            /\ IF IsNone(t)
               THEN CheckReturns(w, AlertResult(FALSE, None))
               ELSE IF ~SettingsAllow(settings, Val(t))
                       \/ pending_count(pending) >= MAX_PENDING_ALERTS_PER_USER
               THEN CheckReturns(w, AlertResult(FALSE, t))
               ELSE checks' = [checks EXCEPT ![w] = [pc |-> "insert", alert_type |-> t,
                                                      ret |-> None]]
  /\ UNCHANGED << callVars, text, out, rows, calls, store, doc, items, settings, digestVars,
                  runVars, manualVars >>

\* lines 227-247: the insert of the alert and the return
AlertInsert(w) ==
  /\ checks[w].pc = "insert"
  /\ \E raises \in BOOLEAN :
       IF raises
       THEN CheckReturns(w, AlertResult(FALSE, None)) /\ UNCHANGED pending
       ELSE /\ pending' = Append(pending, AlertRow(Val(checks[w].alert_type), w))
            /\ CheckReturns(w, AlertResult(TRUE, checks[w].alert_type))
  /\ UNCHANGED << callVars, text, out, rows, calls, store, doc, items, settings, digestVars,
                  runVars, manualVars >>

NextAlert == \E w \in 1..MaxChecks : AlertCheck(w) \/ AlertInsert(w)

SpecAlert == InitAlert /\ [][NextAlert]_vars

\* C26: the rows of pending_alerts of a user that no digest has included
\* never number more than MAX_PENDING_ALERTS_PER_USER, whatever checks ran
\* and however they interleaved.
C26_PendingWithinCap == pending_count(pending) <= MAX_PENDING_ALERTS_PER_USER

\* rows a check of this run inserted
Inserted == { i \in DOMAIN pending : pending[i].by # 0 }

\* C27: with email_enabled = false no check inserts a row, with price drop
\* (price increase) alerts disabled no check inserts a price_drop
\* (price_increase) row, and the check returns alert_created = false.
C27_SettingsRespected ==
  (checks # <<>> /\ ~IsNone(settings)) =>
     /\ ~Val(settings).email_enabled =>
          /\ Inserted = {}
          /\ \A w \in DOMAIN checks :
               ~IsNone(checks[w].ret) => ~Val(checks[w].ret).alert_created
     /\ \A t \in { "price_drop", "price_increase" } :
          ~SettingsAllow(settings, t) =>
             /\ \A i \in Inserted : pending[i].alert_type # t
             /\ \A w \in DOMAIN checks :
                  (~IsNone(checks[w].ret) /\ Val(checks[w].ret).alert_type = Some(t))
                     => ~Val(checks[w].ret).alert_created

(***************************************************************************)
(* send_alert_digests for one user who is due, while a check of a freshly  *)
(* scraped price may insert an alert between any two of its round trips.   *)
(***************************************************************************)

MAX_ALERTS_PER_DIGEST == 50

\* ids (positions) of the rows no digest has included
PendingIds(tbl) == { i \in DOMAIN tbl : ~tbl[i].included_in_digest }

\* order("detected_at", desc=True)
NewestFirst(ids) ==
  [k \in 1..Cardinality(ids) |->
     CHOOSE i \in ids : Cardinality({ j \in ids : j > i }) = k - 1]

\* AlertService.get_pending_alerts_for_user, the ids of its answer
get_pending_alerts_for_user(tbl) == NewestFirst(PendingIds(tbl))

\* alerts[:MAX_ALERTS_PER_DIGEST] of send_price_alert_digest: the alerts the
\* email is built from
Emailed(alerts) == { alerts[k] : k \in 1..Min(Len(alerts), MAX_ALERTS_PER_DIGEST) }

\* AlertService.mark_alerts_as_included
mark_alerts_as_included(tbl, ids) ==
  [i \in DOMAIN tbl |->
     IF i \in ids THEN [tbl[i] EXCEPT !.included_in_digest = TRUE] ELSE tbl[i]]

\* pending rows the table may hold when the pass starts
StartDigest == { 1, 2, MAX_ALERTS_PER_DIGEST + 1 }

InitDigest ==
  /\ NoCall
  /\ url = <<>>
  /\ text = <<>>
  /\ out = None
  /\ NoRequest
  /\ NoStore
  /\ NoDoc
  /\ NoItems
  /\ settings = Some([email_enabled |-> TRUE, alert_price_drop |-> TRUE,
                       alert_price_increase |-> TRUE])
  /\ \E n \in StartDigest : pending = [i \in 1..n |-> AlertRow("price_drop", 0)]
  /\ checks = << IdleCheck >>
  /\ digest = Some([pc |-> "read", alerts |-> <<>>, emailed |-> {}, sent |-> "none"])
  /\ alert_history = <<>>
  /\ last_digest_sent_at = 0
  /\ NoRuns
  /\ NoManual

DigestAt(here) == ~IsNone(digest) /\ Val(digest).pc = here

DigestGoes(there) == digest' = Some([Val(digest) EXCEPT !.pc = there])

DigestKeeps ==
  UNCHANGED << callVars, text, out, rows, calls, store, doc, items, settings, checks, runVars,
               manualVars >>

\* lines 323-328: the pending alerts of the user are read
DigestRead ==
  /\ DigestAt("read")
  /\ \E raises \in BOOLEAN :
       LET alerts == IF raises THEN <<>> ELSE get_pending_alerts_for_user(pending) IN
       digest' = Some([Val(digest) EXCEPT !.alerts = alerts,
                                           !.pc = IF alerts = <<>> THEN "done" ELSE "send"])
  /\ UNCHANGED << pending, alert_history, last_digest_sent_at >>
  /\ DigestKeeps

\* lines 346-354 and 379-396: the email is sent; a send that reports failure is
\* recorded, a send that raises ends the user's turn in the except clause
DigestSend ==
  /\ DigestAt("send")
  /\ \E result \in { "success", "failed", "raised" }, raises \in BOOLEAN :
       /\ digest' = Some([Val(digest) EXCEPT
                            !.sent = result,
                            !.emailed = IF result = "success"
                                        THEN Emailed(Val(digest).alerts) ELSE {},
                            !.pc = IF result = "success" THEN "mark" ELSE "done"])
       /\ alert_history' = IF result = "failed" /\ ~raises
                            THEN Append(alert_history, "failed") ELSE alert_history
  /\ UNCHANGED << pending, last_digest_sent_at >>
  /\ DigestKeeps

\* lines 358-360: every alert that was read is marked; a failure of the update
\* is swallowed by mark_alerts_as_included
DigestMark ==
  /\ DigestAt("mark")
  /\ \E raises \in BOOLEAN :
       pending' = IF raises THEN pending
                  ELSE mark_alerts_as_included(pending, Range(Val(digest).alerts))
  /\ DigestGoes("history")
  /\ UNCHANGED << alert_history, last_digest_sent_at >>
  /\ DigestKeeps

\* lines 362-368: the 'sent' row of alert_history
DigestHistory ==
  /\ DigestAt("history")
  /\ \E raises \in BOOLEAN :
       IF raises
       THEN DigestGoes("done") /\ UNCHANGED alert_history
       ELSE DigestGoes("stamp") /\ alert_history' = Append(alert_history, "sent")
  /\ UNCHANGED << pending, last_digest_sent_at >>
  /\ DigestKeeps

\* lines 370-373: last_digest_sent_at is set
DigestStamp ==
  /\ DigestAt("stamp")
  /\ \E raises \in BOOLEAN :
       last_digest_sent_at' = IF raises THEN last_digest_sent_at ELSE last_digest_sent_at + 1
  /\ DigestGoes("done")
  /\ UNCHANGED << pending, alert_history >>
  /\ DigestKeeps

NextDigest ==
  \/ DigestRead
  \/ DigestSend
  \/ DigestMark
  \/ DigestHistory
  \/ DigestStamp
  \/ AlertCheck(1)
  \/ AlertInsert(1)

SpecDigest == InitDigest /\ [][NextDigest]_vars

\* C28: an alert is marked included only when it was part of a digest whose
\* send reported success; after a send that failed or raised every alert is
\* still pending, last_digest_sent_at is unchanged and a 'failed' row is in
\* alert_history; an alert inserted after the list was read is not marked.
C28_MarkedOnlyWhenSent ==
  ~IsNone(digest) =>
     /\ \A i \in DOMAIN pending :
          pending[i].included_in_digest =>
             /\ Val(digest).sent = "success"
             /\ i \in Val(digest).emailed
     /\ (Val(digest).pc = "done" /\ Val(digest).sent \in { "failed", "raised" }) =>
          /\ PendingIds(pending) = DOMAIN pending
          /\ last_digest_sent_at = 0
          /\ \E k \in DOMAIN alert_history : alert_history[k] = "failed"
     /\ \A i \in DOMAIN pending :
          (pending[i].by # 0 /\ i \notin Range(Val(digest).alerts))
             => ~pending[i].included_in_digest

(***************************************************************************)
(* scrape_single_competitor for one competitor: executions of the task on  *)
(* different workers, each query and insert one round trip to the database.*)
(***************************************************************************)

\* executions of the task that may run at the same time
MaxRuns == 2
\* UTC days the executions may spread over
MaxDay == 2
\* max_retries of the task
max_retries == 3

IdleRun == [pc |-> "check", retries |-> 0, ret |-> "none"]

InitRuns ==
  /\ NoCall
  /\ url = <<>>
  /\ text = <<>>
  /\ out = None
  /\ NoRequest
  /\ NoStore
  /\ NoDoc
  /\ NoItems
  /\ NoAlerts
  /\ NoDigest
  /\ price_history \in { <<>>, << 1 >> }
  /\ today = 1
  /\ runs = [w \in 1..MaxRuns |-> IdleRun]
  /\ NoManual

\* _was_scraped_today: a row of the competitor with scraped_at >= today_start
was_scraped_today(tbl, day) == \E i \in DOMAIN tbl : tbl[i] >= day

RunEnds(w, r) == runs' = [runs EXCEPT ![w] = [@ EXCEPT !.pc = "done", !.ret = r]]

\* autoretry_for=(Exception,): the execution is queued again from its start,
\* until max_retries is used up
RunRaises(w) ==
  runs' = [runs EXCEPT ![w] =
             IF @.retries < max_retries
             THEN [pc |-> "check", retries |-> @.retries + 1, ret |-> "none"]
             ELSE [@ EXCEPT !.pc = "done", !.ret = "failed"]]

RunKeeps ==
  UNCHANGED << callVars, text, out, rows, calls, store, doc, items, settings, pending, checks,
               digestVars, manualVars >>

\* lines 206-210: the check for a row of today
RunCheck(w) ==
  /\ runs[w].pc = "check"
  /\ \E raises \in BOOLEAN :
       IF raises THEN RunRaises(w)
       ELSE IF was_scraped_today(price_history, today) THEN RunEnds(w, "skipped")
       ELSE runs' = [runs EXCEPT ![w] = [@ EXCEPT !.pc = "scrape"]]
  /\ UNCHANGED << price_history, today >>
  /\ RunKeeps

\* line 213: scrape_and_check_alerts, whose insert stamps the row with the
\* time of the insert
RunScrape(w) ==
  /\ runs[w].pc = "scrape"
  /\ \E outcome \in { "raises", "not_found", "inserted" } :
       IF outcome = "raises" THEN RunRaises(w) /\ UNCHANGED price_history
       ELSE IF outcome = "not_found" THEN RunEnds(w, "failed") /\ UNCHANGED price_history
       ELSE /\ price_history' = Append(price_history, today)
            /\ RunEnds(w, "scraped")
  /\ UNCHANGED today
  /\ RunKeeps

\* midnight UTC
DayPasses ==
  /\ runs # <<>>
  /\ today < MaxDay
  /\ today' = today + 1
  /\ UNCHANGED << price_history, runs >>
  /\ RunKeeps

NextRuns == (\E w \in 1..MaxRuns : RunCheck(w) \/ RunScrape(w)) \/ DayPasses

SpecRuns == InitRuns /\ [][NextRuns]_vars

\* C29: price_history holds at most one row of the competitor for each UTC
\* day, also when executions of scrape_single_competitor interleave.
C29_OneRowPerDay ==
  \A i \in DOMAIN price_history, j \in DOMAIN price_history :
     price_history[i] = price_history[j] => i = j

(***************************************************************************)
(* scrape_product_manual: one execution of the task and the progress       *)
(* records it writes to Redis.  Competitors are numbered in the order the  *)
(* query returned them.                                                    *)
(***************************************************************************)

\* most competitors of the product
MaxCompetitors == 3

\* the dict handed to set_scrape_progress
Progress(st, completed, total, results) ==
  [status |-> st, completed |-> completed, total |-> total, results |-> results]

InitManual ==
  /\ NoCall
  /\ url = <<>>
  /\ text = <<>>
  /\ out = None
  /\ NoRequest
  /\ NoStore
  /\ NoDoc
  /\ NoItems
  /\ NoAlerts
  /\ NoDigest
  /\ NoRuns
  /\ progress = <<>>
  /\ manual = Some([pc |-> "start", i |-> 0, total |-> 0, results |-> <<>>])

ManualAt(here) == ~IsNone(manual) /\ Val(manual).pc = here

ManualKeeps ==
  UNCHANGED << callVars, text, out, rows, calls, store, doc, items, settings, pending, checks,
               digestVars, runVars >>

\* lines 76-105: the competitors are fetched and the first record is written
ManualStart ==
  /\ ManualAt("start")
  /\ \E total \in 0..MaxCompetitors :
       IF total = 0
       THEN /\ progress' = Append(progress, Progress("completed", 0, 0, <<>>))
            /\ manual' = Some([Val(manual) EXCEPT !.pc = "done"])
       ELSE /\ progress' = Append(progress, Progress("scraping", 0, total, <<>>))
            /\ manual' = Some([Val(manual) EXCEPT !.pc = "loop", !.total = total])
  /\ ManualKeeps

\* lines 109-121: the record written when a competitor is started
ManualBegin ==
  /\ ManualAt("loop")
  /\ Val(manual).i < Val(manual).total
  /\ progress' = Append(progress, Progress("scraping", Val(manual).i, Val(manual).total,
                                             Val(manual).results))
  /\ manual' = Some([Val(manual) EXCEPT !.pc = "scrape"])
  /\ ManualKeeps

\* a scrape whose exception is not caught: the task ends there
ManualScrape_Uncaught ==
  /\ ManualAt("scrape")
  /\ \E outcome \in { "success", "failed", "raises" } :
       IF outcome = "raises"
       THEN /\ manual' = Some([Val(manual) EXCEPT !.pc = "done"])
            /\ UNCHANGED progress
       ELSE LET results == Append(Val(manual).results,
                                  [competitor_id |-> Val(manual).i + 1, status |-> outcome])
            IN /\ progress' = Append(progress, Progress("scraping", Val(manual).i + 1,
                                                          Val(manual).total, results))
               /\ manual' = Some([Val(manual) EXCEPT !.pc = "loop", !.i = @ + 1,
                                                       !.results = results])
  /\ ManualKeeps

\* lines 123-165: the competitor is scraped and its row inserted, or the
\* exception of either is caught; the result is appended and the record
\* written
ManualScrape ==
  /\ ManualAt("scrape")
  /\ \E outcome \in { "success", "failed", "raises" } :
       LET results == Append(Val(manual).results,
                             [competitor_id |-> Val(manual).i + 1,
                              status |-> IF outcome = "raises" THEN "error" ELSE outcome])
       IN /\ progress' = Append(progress, Progress("scraping", Val(manual).i + 1,
                                                     Val(manual).total, results))
          /\ manual' = Some([Val(manual) EXCEPT !.pc = "loop", !.i = @ + 1,
                                                  !.results = results])
  /\ ManualKeeps

\* lines 167-178: the last record
ManualFinish ==
  /\ ManualAt("loop")
  /\ Val(manual).i = Val(manual).total
  /\ progress' = Append(progress, Progress("completed", Val(manual).total, Val(manual).total,
                                             Val(manual).results))
  /\ manual' = Some([Val(manual) EXCEPT !.pc = "done"])
  /\ ManualKeeps

NextManual == ManualStart \/ ManualBegin \/ ManualScrape \/ ManualFinish

SpecManual == InitManual /\ [][NextManual]_vars

\* C30: in every progress record 0 <= completed <= total and results has
\* completed entries, completed never decreases from one record to the next,
\* and the last record of a finished task has status 'completed',
\* completed = total and one result for each competitor, whether or not
\* scrapes or inserts raised.
C30_ProgressConsistent ==
  /\ \A k \in DOMAIN progress :
       /\ 0 <= progress[k].completed
       /\ progress[k].completed <= progress[k].total
       /\ Len(progress[k].results) = progress[k].completed
       /\ k > 1 => progress[k].completed >= progress[k - 1].completed
  /\ ManualAt("done") =>
       /\ progress # <<>>
       /\ LET last == progress[Len(progress)] IN
          /\ last.status = "completed"
          /\ last.completed = last.total
          /\ Len(last.results) = last.total
          /\ \A c \in 1..last.total : last.results[c].competitor_id = c

\* a task over two or more competitors finished although a scrape or an
\* insert raised
C30_Witness ==
  /\ ManualAt("done")
  /\ Val(manual).total >= 2
  /\ \E c \in 1..Val(manual).total : Val(manual).results[c].status = "error"
  /\ \E c \in 1..Val(manual).total : Val(manual).results[c].status = "success"
  /\ progress[Len(progress)].status = "completed"
====
